---------------------------- MODULE Spec2Model ----------------------------
(***************************************************************************)
(* Super Shopper: the price-comparison flow of comparison_modal.js.        *)
(*                                                                         *)
(* A JavaScript string is modelled as a sequence of one-character strings, *)
(* so that includes(), toLowerCase(), the regular expressions and the      *)
(* character-wise key derivation are computed the way the code computes    *)
(* them.                                                                   *)
(***************************************************************************)
EXTENDS Integers, Sequences, FiniteSets, TLC

(***************************************************************************)
(* Characters and the String.prototype methods the code calls.             *)
(***************************************************************************)
UpperSeq == <<"A","B","C","D","E","F","G","H","I","J","K","L","M","N","O","P","Q","R","S","T","U","V","W","X","Y","Z">>
LowerSeq == <<"a","b","c","d","e","f","g","h","i","j","k","l","m","n","o","p","q","r","s","t","u","v","w","x","y","z">>

Range(f) == {f[x] : x \in DOMAIN f}

\* the least and the greatest number of a non-empty set
Least(S)    == CHOOSE x \in S : \A y \in S : x <= y
Greatest(S) == CHOOSE x \in S : \A y \in S : x >= y

Upper == Range(UpperSeq)
Lower == Range(LowerSeq)
Digit == Range(<<"0","1","2","3","4","5","6","7","8","9">>)
Alnum == Upper \cup Lower \cup Digit
\* \w of a JavaScript regular expression
WordChar == Alnum \cup {"_"}
\* \s of a JavaScript regular expression, over the characters of the model ("nbsp" is the
\* one character U+00A0; the signs of the pound, euro, yen and peso are "pound", "euro",
\* "yen" and "peso")
SpaceChar == {" ", "nbsp"}

toLowerChar(c) == IF c \in Upper THEN LowerSeq[CHOOSE i \in 1..26 : UpperSeq[i] = c] ELSE c
toUpperChar(c) == IF c \in Lower THEN UpperSeq[CHOOSE i \in 1..26 : LowerSeq[i] = c] ELSE c

toLowerCase(s) == [i \in 1..Len(s) |-> toLowerChar(s[i])]
toUpperCase(s) == [i \in 1..Len(s) |-> toUpperChar(s[i])]

\* s.substring(from0, to0) with 0-based bounds, clamped as JavaScript clamps
substring(s, from0, to0) ==
  LET hi == IF to0 > Len(s) THEN Len(s) ELSE to0
  IN  SubSeq(s, from0 + 1, hi)

startsWithAt(s, sub, pos) ==
  /\ pos + Len(sub) - 1 <= Len(s)
  /\ \A j \in 1..Len(sub) : s[pos + j - 1] = sub[j]

includes(s, sub) == \E pos \in 1..(Len(s) - Len(sub) + 1) : startsWithAt(s, sub, pos)

startsWith(s, sub) == startsWithAt(s, sub, 1)

endsWith(s, sub) == Len(sub) <= Len(s) /\ startsWithAt(s, sub, Len(s) - Len(sub) + 1)

\* 1-based position of the first occurrence of sub in s at or after from, 0 if none
indexOfFrom(s, sub, from) ==
  LET hits == {pos \in from..(Len(s) - Len(sub) + 1) : startsWithAt(s, sub, pos)}
  IN  IF hits = {} THEN 0 ELSE Least(hits)

RECURSIVE concatAll(_)
\* the concatenation of the strings of a list, by halves
concatAll(parts) ==
  IF Len(parts) = 0 THEN <<>>
  ELSE IF Len(parts) = 1 THEN parts[1]
  ELSE concatAll(SubSeq(parts, 1, Len(parts) \div 2))
         \o concatAll(SubSeq(parts, Len(parts) \div 2 + 1, Len(parts)))

\* s.replace(/[class]/g, with): every character of unsafe is replaced by with
replaceChars(s, unsafe, with) ==
  concatAll([i \in 1..Len(s) |-> IF s[i] \in unsafe THEN with ELSE <<s[i]>>])

\* array.join(sep)
join(parts, sep) ==
  concatAll([i \in 1..Len(parts) |-> IF i = 1 THEN parts[i] ELSE sep \o parts[i]])

RECURSIVE splitOn(_, _)
\* s.split(c) for a one-character separator c
splitOn(s, c) ==
  LET cut == indexOfFrom(s, <<c>>, 1)
  IN  IF cut = 0 THEN <<s>>
      ELSE <<SubSeq(s, 1, cut - 1)>> \o splitOn(SubSeq(s, cut + 1, Len(s)), c)

(***************************************************************************)
(* Regular expressions: a pattern is a sequence of elements, each either a *)
(* quantified character class {min,max} (max < 0: unbounded) or the        *)
(* zero-width word boundary \b.  Matching is JavaScript's: leftmost,       *)
(* greedy, with backtracking.                                              *)
(***************************************************************************)
Cls(set, min, max)    == [kind |-> "cls", neg |-> FALSE, set |-> set, min |-> min, max |-> max, str |-> <<>>]
NotCls(set, min, max) == [kind |-> "cls", neg |-> TRUE,  set |-> set, min |-> min, max |-> max, str |-> <<>>]
WordB                 == [kind |-> "wb",  neg |-> FALSE, set |-> {},  min |-> 0,   max |-> 0,   str |-> <<>>]

\* a literal, matched case-sensitively
Lit(str)   == <<[kind |-> "lit", neg |-> FALSE, set |-> {}, min |-> 1, max |-> 1, str |-> str]>>
\* a literal under the /i flag: neg says that case is ignored
LitCI(str) == <<[kind |-> "lit", neg |-> TRUE,  set |-> {}, min |-> 1, max |-> 1, str |-> str]>>

\* the literal e stands in s at pos
LitAt(s, pos, e) ==
  /\ pos + Len(e.str) - 1 <= Len(s)
  /\ \A i \in 1..Len(e.str) :
       IF e.neg THEN toLowerChar(s[pos + i - 1]) = toLowerChar(e.str[i])
       ELSE s[pos + i - 1] = e.str[i]

InCls(c, e) == IF e.neg THEN c \notin e.set ELSE c \in e.set

IsWordAt(s, pos) == pos >= 1 /\ pos <= Len(s) /\ s[pos] \in WordChar

WordBoundary(s, pos) == IsWordAt(s, pos - 1) # IsWordAt(s, pos)

\* how many characters from pos on are of the class e, at most lim
RunLength(s, pos, e, lim) ==
  LET stops == {q \in pos..Len(s) : ~InCls(s[q], e)}
  IN  Greatest({0, Least({lim, (IF stops = {} THEN Len(s) + 1 ELSE Least(stops)) - pos})})

RECURSIVE MatchFrom(_, _, _, _), TryCount(_, _, _, _, _)
\* the position after the match of re[k..] at pos, 0 when there is none
MatchFrom(s, pos, re, k) ==
  IF k > Len(re) THEN pos
  ELSE IF re[k].kind = "wb"
       THEN (IF WordBoundary(s, pos) THEN MatchFrom(s, pos, re, k + 1) ELSE 0)
  ELSE IF re[k].kind = "lit"
       THEN (IF LitAt(s, pos, re[k]) THEN MatchFrom(s, pos + Len(re[k].str), re, k + 1) ELSE 0)
       ELSE TryCount(s, pos, re, k,
                     RunLength(s, pos, re[k], IF re[k].max < 0 THEN Len(s) ELSE re[k].max))

TryCount(s, pos, re, k, n) ==
  IF n < re[k].min THEN 0
  ELSE LET e == MatchFrom(s, pos + n, re, k + 1)
       IN  IF e # 0 THEN e ELSE TryCount(s, pos, re, k, n - 1)

\* pattern.test(s)
RegexTest(s, re) == \E pos \in 1..(Len(s) + 1) : MatchFrom(s, pos, re, 1) # 0

RECURSIVE MatchAllFrom(_, _, _)
\* s.match(pattern) under the /g flag, from position pos: the matched substrings
MatchAllFrom(s, re, pos) ==
  LET starts == {q \in pos..(Len(s) + 1) : MatchFrom(s, q, re, 1) # 0}
  IN  IF starts = {} THEN <<>>
      ELSE LET q == Least(starts)
               e == MatchFrom(s, q, re, 1)
           IN  <<SubSeq(s, q, e - 1)>> \o MatchAllFrom(s, re, IF e = q THEN q + 1 ELSE e)

(***************************************************************************)
(* getCacheKey                                                             *)
(***************************************************************************)
\* the characters encodeURIComponent leaves as they are
UriUnreserved == Alnum \cup {"-", "_", ".", "!", "~", "*", "'", "(", ")"}

\* the percent-escapes of the other characters of the model
PercentCode ==
  [c \in {":", "/", "?", "=", "&", " ", "#", "%", "+", ",", "@", "$", ";"} |->
     CASE c = ":" -> <<"%","3","A">> [] c = "/" -> <<"%","2","F">> [] c = "?" -> <<"%","3","F">>
       [] c = "=" -> <<"%","3","D">> [] c = "&" -> <<"%","2","6">> [] c = " " -> <<"%","2","0">>
       [] c = "#" -> <<"%","2","3">> [] c = "%" -> <<"%","2","5">> [] c = "+" -> <<"%","2","B">>
       [] c = "," -> <<"%","2","C">> [] c = "@" -> <<"%","4","0">> [] c = "$" -> <<"%","2","4">>
       [] c = ";" -> <<"%","3","B">>]

encodeURIComponent(s) ==
  concatAll([i \in 1..Len(s) |->
               IF s[i] \in UriUnreserved THEN <<s[i]>> ELSE PercentCode[s[i]]])

\* .replace(/[^a-zA-Z0-9_-]/g, '_')
sanitizeKey(s) ==
  [i \in 1..Len(s) |-> IF s[i] \in (Alnum \cup {"_", "-"}) THEN s[i] ELSE "_"]

getCacheKey(productInfo) ==
  sanitizeKey(<<"s","e","a","r","c","h","_","c","a","c","h","e","_">> \o productInfo.retailer \o <<"_">> \o encodeURIComponent(productInfo.url))

(***************************************************************************)
(* extractRetailerName and its table                                       *)
(***************************************************************************)
RETAILER_MAP == <<
  <<<<"a","m","a","z","o","n">>, <<"A","m","a","z","o","n">>>>,
  <<<<"t","a","r","g","e","t">>, <<"T","a","r","g","e","t">>>>,
  <<<<"w","a","l","m","a","r","t">>, <<"W","a","l","m","a","r","t">>>>,
  <<<<"c","o","s","t","c","o">>, <<"C","o","s","t","c","o">>>>,
  <<<<"b","e","s","t","b","u","y">>, <<"B","e","s","t"," ","B","u","y">>>>,
  <<<<"b","e","s","t","-","b","u","y">>, <<"B","e","s","t"," ","B","u","y">>>>,
  <<<<"e","b","a","y">>, <<"e","B","a","y">>>>,
  <<<<"k","r","o","g","e","r">>, <<"K","r","o","g","e","r">>>>,
  <<<<"w","a","l","g","r","e","e","n","s">>, <<"W","a","l","g","r","e","e","n","s">>>>,
  <<<<"f","r","y","s","f","o","o","d">>, <<"F","r","y","'","s"," ","F","o","o","d">>>>,
  <<<<"h","o","m","e","d","e","p","o","t">>, <<"H","o","m","e"," ","D","e","p","o","t">>>>,
  <<<<"h","o","m","e","-","d","e","p","o","t">>, <<"H","o","m","e"," ","D","e","p","o","t">>>>,
  <<<<"l","o","w","e","s">>, <<"L","o","w","e","'","s">>>>,
  <<<<"k","o","h","l","s">>, <<"K","o","h","l","'","s">>>>,
  <<<<"m","a","c","y","s">>, <<"M","a","c","y","'","s">>>>,
  <<<<"j","c","p","e","n","n","e","y">>, <<"J","C","P","e","n","n","e","y">>>>,
  <<<<"j","c","-","p","e","n","n","e","y">>, <<"J","C","P","e","n","n","e","y">>>>,
  <<<<"s","e","a","r","s">>, <<"S","e","a","r","s">>>>,
  <<<<"o","v","e","r","s","t","o","c","k">>, <<"O","v","e","r","s","t","o","c","k">>>>,
  <<<<"w","a","y","f","a","i","r">>, <<"W","a","y","f","a","i","r">>>>,
  <<<<"z","a","p","p","o","s">>, <<"Z","a","p","p","o","s">>>>,
  <<<<"n","e","w","e","g","g">>, <<"N","e","w","e","g","g">>>>,
  <<<<"b","h","p","h","o","t","o","v","i","d","e","o">>, <<"B","&","H"," ","P","h","o","t","o">>>>,
  <<<<"b","h","p","h","o","t","o">>, <<"B","&","H"," ","P","h","o","t","o">>>>,
  <<<<"m","i","c","r","o","c","e","n","t","e","r">>, <<"M","i","c","r","o"," ","C","e","n","t","e","r">>>>,
  <<<<"m","i","c","r","o","-","c","e","n","t","e","r">>, <<"M","i","c","r","o"," ","C","e","n","t","e","r">>>>,
  <<<<"f","r","y","s">>, <<"F","r","y","'","s"," ","E","l","e","c","t","r","o","n","i","c","s">>>>,
  <<<<"a","p","p","l","e">>, <<"A","p","p","l","e">>>>,
  <<<<"m","i","c","r","o","s","o","f","t">>, <<"M","i","c","r","o","s","o","f","t"," ","S","t","o","r","e">>>>,
  <<<<"s","t","a","p","l","e","s">>, <<"S","t","a","p","l","e","s">>>>,
  <<<<"o","f","f","i","c","e","d","e","p","o","t">>, <<"O","f","f","i","c","e"," ","D","e","p","o","t">>>>,
  <<<<"o","f","f","i","c","e","-","d","e","p","o","t">>, <<"O","f","f","i","c","e"," ","D","e","p","o","t">>>>,
  <<<<"o","f","f","i","c","e","m","a","x">>, <<"O","f","f","i","c","e","M","a","x">>>>,
  <<<<"r","e","i">>, <<"R","E","I">>>>,
  <<<<"d","i","c","k","s","s","p","o","r","t","i","n","g","g","o","o","d","s">>, <<"D","i","c","k","'","s"," ","S","p","o","r","t","i","n","g"," ","G","o","o","d","s">>>>,
  <<<<"d","i","c","k","s">>, <<"D","i","c","k","'","s"," ","S","p","o","r","t","i","n","g"," ","G","o","o","d","s">>>>,
  <<<<"a","c","a","d","e","m","y">>, <<"A","c","a","d","e","m","y"," ","S","p","o","r","t","s">>>>,
  <<<<"c","h","e","w","y">>, <<"C","h","e","w","y">>>>,
  <<<<"p","e","t","c","o">>, <<"P","e","t","c","o">>>>,
  <<<<"p","e","t","s","m","a","r","t">>, <<"P","e","t","S","m","a","r","t">>>>,
  <<<<"p","e","t","-","s","m","a","r","t">>, <<"P","e","t","S","m","a","r","t">>>>,
  <<<<"b","e","d","b","a","t","h","a","n","d","b","e","y","o","n","d">>, <<"B","e","d"," ","B","a","t","h"," ","&"," ","B","e","y","o","n","d">>>>,
  <<<<"b","e","d","-","b","a","t","h","-","a","n","d","-","b","e","y","o","n","d">>, <<"B","e","d"," ","B","a","t","h"," ","&"," ","B","e","y","o","n","d">>>>,
  <<<<"c","r","a","t","e","a","n","d","b","a","r","r","e","l">>, <<"C","r","a","t","e"," ","&"," ","B","a","r","r","e","l">>>>,
  <<<<"c","r","a","t","e","-","a","n","d","-","b","a","r","r","e","l">>, <<"C","r","a","t","e"," ","&"," ","B","a","r","r","e","l">>>>,
  <<<<"p","o","t","t","e","r","y","b","a","r","n">>, <<"P","o","t","t","e","r","y"," ","B","a","r","n">>>>,
  <<<<"p","o","t","t","e","r","y","-","b","a","r","n">>, <<"P","o","t","t","e","r","y"," ","B","a","r","n">>>>,
  <<<<"w","e","s","t","e","l","m">>, <<"W","e","s","t"," ","E","l","m">>>>,
  <<<<"w","e","s","t","-","e","l","m">>, <<"W","e","s","t"," ","E","l","m">>>>,
  <<<<"i","k","e","a">>, <<"I","K","E","A">>>>,
  <<<<"g","a","m","e","s","t","o","p">>, <<"G","a","m","e","S","t","o","p">>>>,
  <<<<"g","a","m","e","-","s","t","o","p">>, <<"G","a","m","e","S","t","o","p">>>>,
  <<<<"u","l","t","a">>, <<"U","l","t","a"," ","B","e","a","u","t","y">>>>,
  <<<<"s","e","p","h","o","r","a">>, <<"S","e","p","h","o","r","a">>>>,
  <<<<"n","o","r","d","s","t","r","o","m">>, <<"N","o","r","d","s","t","r","o","m">>>>,
  <<<<"n","o","r","d","s","t","r","o","m","r","a","c","k">>, <<"N","o","r","d","s","t","r","o","m"," ","R","a","c","k">>>>,
  <<<<"n","o","r","d","s","t","r","o","m","-","r","a","c","k">>, <<"N","o","r","d","s","t","r","o","m"," ","R","a","c","k">>>>,
  <<<<"n","i","k","e">>, <<"N","i","k","e">>>>,
  <<<<"a","d","i","d","a","s">>, <<"A","d","i","d","a","s">>>>,
  <<<<"s","o","n","y">>, <<"S","o","n","y">>>>,
  <<<<"s","a","m","s","u","n","g">>, <<"S","a","m","s","u","n","g">>>>,
  <<<<"d","e","l","l">>, <<"D","e","l","l">>>>,
  <<<<"h","p">>, <<"H","P">>>>,
  <<<<"l","e","n","o","v","o">>, <<"L","e","n","o","v","o">>>>,
  <<<<"j","b","l">>, <<"J","B","L">>>>,
  <<<<"l","g">>, <<"L","G">>>>,
  <<<<"t","c","l">>, <<"T","C","L">>>>
>>

OtherRetailer == <<"O","t","h","e","r"," ","R","e","t","a","i","l","e","r">>

\* the first entry of RETAILER_MAP whose pattern occurs in text, 0 if none
RetailerMapHit(text) ==
  LET hits == {k \in 1..Len(RETAILER_MAP) : includes(text, RETAILER_MAP[k][1])}
  IN  IF hits = {} THEN 0 ELSE Least(hits)

\* .replace(/^www\./, '')
stripWww(h) == IF startsWith(h, <<"w","w","w",".">>) THEN SubSeq(h, 5, Len(h)) ELSE h

\* the characters a URL's host may not hold
ForbiddenHostChar == {" ", "<", ">", "[", "]", "^", "|", "%", "\\"}

\* the position where the authority of a URL ends: the first of / ? # at or after from
AuthorityEnd(s, from) ==
  LET stops == {q \in from..Len(s) : s[q] \in {"/", "?", "#"}}
  IN  IF stops = {} THEN Len(s) + 1 ELSE Least(stops)

\* the authority of an http(s) URL (what follows the scheme up to the first of / ? #)
\* without its user info
hostPortOf(url) ==
  LET from == IF startsWith(url, <<"h","t","t","p","s",":","/","/">>) THEN 9 ELSE 8
      auth == SubSeq(url, from, AuthorityEnd(url, from) - 1)
      ats  == {q \in 1..Len(auth) : auth[q] = "@"}
  IN  IF ats = {} THEN auth ELSE SubSeq(auth, Greatest(ats) + 1, Len(auth))

\* the URL record of host:port split at colon (0: no port), [ok |-> FALSE] when the
\* constructor throws
hostRecord(hp, colon) ==
  LET host == IF colon = 0 THEN hp ELSE SubSeq(hp, 1, colon - 1)
      port == IF colon = 0 THEN <<>> ELSE SubSeq(hp, colon + 1, Len(hp))
  IN  IF \/ host = <<>>
         \/ \E q \in 1..Len(host) : host[q] \in ForbiddenHostChar
         \/ \E q \in 1..Len(port) : port[q] \notin Digit
      THEN [ok |-> FALSE, hostname |-> <<>>]
      ELSE [ok |-> TRUE, hostname |-> toLowerCase(host)]

\* new URL(url) for an http(s) URL: [ok |-> FALSE] when the constructor throws,
\* otherwise the lower-cased hostname (user info and port removed)
parseURL(url) == hostRecord(hostPortOf(url), indexOfFrom(hostPortOf(url), <<":">>, 1))

capitalize(word) ==
  IF word = <<>> THEN <<>> ELSE <<toUpperChar(word[1])>> \o SubSeq(word, 2, Len(word))

specialCases == <<
  <<<<"k","o","h","l","s">>, <<"K","o","h","l","'","s">>>>,
  <<<<"m","a","c","y","s">>, <<"M","a","c","y","'","s">>>>,
  <<<<"j","c","p","e","n","n","e","y">>, <<"J","C","P","e","n","n","e","y">>>>,
  <<<<"d","i","c","k","s">>, <<"D","i","c","k","'","s">>>>,
  <<<<"b","e","d","b","a","t","h","a","n","d","b","e","y","o","n","d">>, <<"B","e","d"," ","B","a","t","h"," ","&"," ","B","e","y","o","n","d">>>>
>>

\* domain.replace(/-/g, ' ').split(' ').map(capitalize).join(' ')
readableName(domain) ==
  LET words == splitOn(replaceChars(domain, {"-"}, <<" ">>), " ")
  IN  join([j \in 1..Len(words) |-> capitalize(words[j])], <<" ">>)

\* the name of the second-level label: table, special cases, readable form
retailerOfDomain(domain, kd) ==
  IF kd # 0 THEN RETAILER_MAP[kd][2]
  ELSE LET sc == {j \in 1..Len(specialCases) : specialCases[j][1] = domain}
       IN  IF sc # {} THEN specialCases[CHOOSE j \in sc : TRUE][2]
           ELSE IF readableName(domain) # <<>> THEN readableName(domain)
           ELSE capitalize(domain)

\* the name of a host name without www. whose table index is k (0: not in the table)
retailerOfStripped(hostname, k) ==
  IF k # 0 THEN RETAILER_MAP[k][2]
  ELSE LET parts == splitOn(hostname, ".")
       IN  IF Len(parts) >= 2
           THEN retailerOfDomain(parts[Len(parts) - 1], RetailerMapHit(parts[Len(parts) - 1]))
           ELSE OtherRetailer

\* the name derived from a host name: the try block after the hostname is known
retailerOfHostname(hostname0) ==
  retailerOfStripped(stripWww(hostname0), RetailerMapHit(stripWww(hostname0)))

\* ([^.]+)\.[^.]+
unparsedPattern == <<NotCls({"."}, 1, -1)>> \o Lit(<<".">>) \o <<NotCls({"."}, 1, -1)>>

\* where the group ([^.]+) starts for a match that starts at q0: the optional (?:www\.)
\* is taken when it can be
groupStart(url, q0) ==
  IF startsWithAt(url, <<"w","w","w",".">>, q0) /\ MatchFrom(url, q0 + 4, unparsedPattern, 1) # 0
  THEN q0 + 4 ELSE q0

\* match[1].toLowerCase()
groupText(url, g0) ==
  toLowerCase(SubSeq(url, g0, g0 + RunLength(url, g0, NotCls({"."}, 1, -1), Len(url)) - 1))

\* the name of the matched group
retailerOfMatch(domain) ==
  LET kd == RetailerMapHit(domain)
  IN  IF kd # 0 THEN RETAILER_MAP[kd][2]
      ELSE IF domain = <<"k","o","h","l","s">> THEN <<"K","o","h","l","'","s">>
      ELSE capitalize(domain)

\* the catch block: url.match(/(?:www\.)?([^.]+)\.[^.]+/), leftmost match
retailerOfUnparsed(url) ==
  LET starts == {q \in 1..Len(url) : MatchFrom(url, q, unparsedPattern, 1) # 0}
  IN  IF starts = {} THEN OtherRetailer
      ELSE retailerOfMatch(groupText(url, groupStart(url, Least(starts))))

extractRetailerName(url) ==
  IF url = <<>> THEN OtherRetailer
  ELSE IF startsWith(url, <<"h","t","t","p",":","/","/">>) \/ startsWith(url, <<"h","t","t","p","s",":","/","/">>)
       THEN (IF parseURL(url).ok THEN retailerOfHostname(parseURL(url).hostname)
             ELSE retailerOfUnparsed(url))
       ELSE retailerOfHostname(stripWww(toLowerCase(url)))

(***************************************************************************)
(* parseShoppingResults: the stages of the filter applied to one item.     *)
(* An absent string field of an item is the empty string: the code reads   *)
(* every such field through ||, which treats the two alike.                *)
(***************************************************************************)
\* (item.link || item.displayLink || '')
linkOf(item) == IF item.link # <<>> THEN item.link ELSE item.displayLink

\* https?:\/\/
schemePattern == Lit(<<"h","t","t","p">>) \o <<Cls({"s"}, 0, 1)>> \o Lit(<<":","/","/">>)
\* https?:\/\/([^/]+)
hostPattern == schemePattern \o <<NotCls({"/"}, 1, -1)>>
\* https?:\/\/[^\/]+\/
pathPattern == hostPattern \o Lit(<<"/">>)

\* the leftmost position where re matches in s, 0 if none
firstMatch(s, re) ==
  LET starts == {q \in 1..Len(s) : MatchFrom(s, q, re, 1) # 0}
  IN  IF starts = {} THEN 0 ELSE Least(starts)

\* url.match(/https?:\/\/([^/]+)/)?.[1] || ''
hostnameOfUrl(url) ==
  LET q0 == firstMatch(url, hostPattern)
  IN  IF q0 = 0 THEN <<>>
      ELSE SubSeq(url, MatchFrom(url, q0, schemePattern, 1), MatchFrom(url, q0, hostPattern, 1) - 1)

\* url.match(/https?:\/\/[^\/]+\/(.*)/)?.[1] || ''
pathOfUrl(url) ==
  LET q0 == firstMatch(url, pathPattern)
  IN  IF q0 = 0 THEN <<>> ELSE SubSeq(url, MatchFrom(url, q0, pathPattern, 1), Len(url))

isNonCommerce(url) ==
  \/ includes(url, <<".","o","r","g","/">>)
  \/ includes(url, <<".","e","d","u","/">>)
  \/ includes(url, <<".","g","o","v","/">>)
  \/ (includes(url, <<".","o","r","g">>) /\ ~includes(url, <<"s","e","a","r","c","h">>))

nonUSDomains == <<
  <<".","c","o","m",".","p","h">>,
  <<".","c","o","m",".","a","u">>,
  <<".","c","o",".","u","k">>,
  <<".","c","o","m",".","b","r">>,
  <<".","c","o","m",".","m","x">>,
  <<".","c","a">>,
  <<".","c","o",".","j","p">>,
  <<".","f","r">>,
  <<".","d","e">>,
  <<".","i","t">>,
  <<".","e","s">>,
  <<".","n","l">>,
  <<".","c","o","m",".","s","g">>,
  <<".","c","o","m",".","h","k">>,
  <<".","c","o",".","i","n">>,
  <<".","c","o","m",".","t","r">>,
  <<".","c","o","m",".","a","r">>,
  <<".","c","o",".","z","a">>,
  <<".","c","o","m",".","t","w">>,
  <<".","c","o","m",".","c","n">>,
  <<".","a","e">>,
  <<".","s","a">>
>>

isNonUSDomain(url) == \E d \in Range(nonUSDomains) : includes(url, d)

nonUSTLDs == {<<"p","h">>, <<"a","u">>, <<"u","k">>, <<"b","r">>, <<"m","x">>, <<"j","p">>, <<"f","r">>, <<"d","e">>, <<"i","t">>, <<"e","s">>, <<"n","l">>, <<"s","g">>, <<"h","k">>,
              <<"i","n">>, <<"t","r">>, <<"a","r">>, <<"z","a">>, <<"t","w">>, <<"c","n">>, <<"a","e">>, <<"s","a">>}

isNonUSHostname(hostname) ==
  /\ hostname # <<>>
  /\ \/ endsWith(hostname, <<".","c","o",".","u","k">>)
     \/ endsWith(hostname, <<".","c","o","m",".","a","u">>)
     \/ endsWith(hostname, <<".","c","o","m",".","p","h">>)
     \/ endsWith(hostname, <<".","c","a">>)
     \/ \E t \in nonUSTLDs : endsWith(hostname, <<".">> \o t)

nonRetailerDomains == <<
  <<"r","e","d","d","i","t",".","c","o","m">>,
  <<"r","e","d","d",".","i","t">>,
  <<"f","a","c","e","b","o","o","k",".","c","o","m">>,
  <<"f","b",".","c","o","m">>,
  <<"t","w","i","t","t","e","r",".","c","o","m">>,
  <<"x",".","c","o","m">>,
  <<"i","n","s","t","a","g","r","a","m",".","c","o","m">>,
  <<"p","i","n","t","e","r","e","s","t",".","c","o","m">>,
  <<"t","i","k","t","o","k",".","c","o","m">>,
  <<"y","o","u","t","u","b","e",".","c","o","m">>,
  <<"y","o","u","t","u",".","b","e">>,
  <<"w","i","k","i","p","e","d","i","a",".","o","r","g">>,
  <<"w","i","k","i","m","e","d","i","a",".","o","r","g">>,
  <<"q","u","o","r","a",".","c","o","m">>,
  <<"m","e","d","i","u","m",".","c","o","m">>,
  <<"l","i","n","k","e","d","i","n",".","c","o","m">>,
  <<"t","u","m","b","l","r",".","c","o","m">>,
  <<"b","l","o","g","s","p","o","t",".","c","o","m">>,
  <<"b","l","o","g","g","e","r",".","c","o","m">>,
  <<"w","o","r","d","p","r","e","s","s",".","c","o","m">>,
  <<"y","a","h","o","o",".","c","o","m">>,
  <<"y","a","h","o","o",".","c","o">>,
  <<"b","u","z","z","f","e","e","d",".","c","o","m">>,
  <<"c","n","n",".","c","o","m">>,
  <<"b","b","c",".","c","o","m">>,
  <<"n","y","t","i","m","e","s",".","c","o","m">>,
  <<"w","a","s","h","i","n","g","t","o","n","p","o","s","t",".","c","o","m">>,
  <<"w","s","j",".","c","o","m">>,
  <<"u","s","a","t","o","d","a","y",".","c","o","m">>,
  <<"t","h","e","v","e","r","g","e",".","c","o","m">>,
  <<"t","e","c","h","c","r","u","n","c","h",".","c","o","m">>,
  <<"e","n","g","a","d","g","e","t",".","c","o","m">>,
  <<"a","r","s","t","e","c","h","n","i","c","a",".","c","o","m">>,
  <<"a","m","a","z","o","n",".","c","o","m","/","r","e","v","i","e","w">>,
  <<"a","m","a","z","o","n",".","c","o","m","/","c","u","s","t","o","m","e","r","-","r","e","v","i","e","w","s">>,
  <<"a","m","a","z","o","n",".","c","o","m","/","p","r","o","d","u","c","t","-","r","e","v","i","e","w","s">>
>>

isNonRetailer(hostname, url) ==
  \E d \in Range(nonRetailerDomains) : includes(hostname, d) \/ includes(url, d)

AlnumDash == Alnum \cup {"-"}

\* the productPagePatterns, in the order of the source (all under the /i flag)
productPagePatterns == <<
  LitCI(<<"/","d","p","/">>) \o <<Cls(Alnum, 10, 10)>>,
  LitCI(<<"/","g","p","/","p","r","o","d","u","c","t","/">>) \o <<Cls(Alnum, 1, 1)>>,
  LitCI(<<"/","p","r","o","d","u","c","t","/">>) \o <<Cls(Alnum, 1, 1)>>,
  LitCI(<<"/","p","/">>) \o <<NotCls({"/"}, 1, -1)>>,
  LitCI(<<"/","p","/">>) \o <<Cls(AlnumDash, 1, -1)>> \o Lit(<<"/">>),
  LitCI(<<"/","p","r","o","d","u","c","t","/">>) \o <<Cls(Digit, 1, -1)>>,
  LitCI(<<"/","i","p","/">>) \o <<NotCls({"/"}, 1, -1)>> \o Lit(<<"/">>) \o <<Cls(Digit, 1, -1)>>,
  LitCI(<<"/","p","r","o","d","u","c","t","/">>) \o <<Cls(Digit, 1, -1)>>,
  LitCI(<<"/","s","t","o","r","e","/">>) \o <<NotCls({}, 0, -1)>> \o LitCI(<<"/","i","d","=">>),
  LitCI(<<"/","p","r","o","d","u","c","t">>) \o <<Cls({"s", "S"}, 0, 1)>> \o Lit(<<"/">>) \o <<NotCls({"/"}, 1, -1)>>,
  LitCI(<<"/","i","t","e","m">>) \o <<Cls({"s", "S"}, 0, 1)>> \o Lit(<<"/">>) \o <<NotCls({"/"}, 1, -1)>>,
  LitCI(<<"/","p","/">>) \o <<NotCls({"/"}, 1, -1)>>,
  LitCI(<<"/","p","r","o","d","u","c","t","s","/">>) \o <<NotCls({"/"}, 1, -1)>>,
  LitCI(<<"/","s","h","o","p","/">>) \o <<NotCls({"/"}, 1, -1)>> \o Lit(<<"/">>) \o <<NotCls({"/"}, 1, -1)>>,
  LitCI(<<"/","b","u","y","/">>) \o <<NotCls({"/"}, 1, -1)>>,
  LitCI(<<"/","s","i","t","e","/">>) \o <<NotCls({"/"}, 1, -1)>> \o Lit(<<"/">>) \o <<NotCls({"/"}, 1, -1)>>
     \o LitCI(<<"/","p",".","a","s","p","x">>),
  LitCI(<<"/","i","t","m","/">>) \o <<Cls(Digit, 1, -1)>>
>>

isProductPage(url) == \E re \in Range(productPagePatterns) : RegexTest(url, re)

nonProductPatterns == <<
  <<"/","s","e","a","r","c","h">>,
  <<"/","c","a","t","e","g","o","r","y">>,
  <<"/","c","a","t","e","g","o","r","i","e","s">>,
  <<"/","b","r","a","n","d">>,
  <<"/","b","r","a","n","d","s">>,
  <<"/","r","e","v","i","e","w">>,
  <<"/","r","e","v","i","e","w","s">>,
  <<"/","c","o","m","p","a","r","e">>,
  <<"/","g","u","i","d","e">>,
  <<"/","h","e","l","p">>,
  <<"/","b","l","o","g">>,
  <<"/","a","r","t","i","c","l","e">>,
  <<"/","n","e","w","s">>,
  <<"/","a","b","o","u","t">>,
  <<"/","c","o","n","t","a","c","t">>,
  <<"/","f","a","q">>,
  <<"/","s","i","t","e","m","a","p">>,
  <<"/","c","a","r","t">>,
  <<"/","c","h","e","c","k","o","u","t">>,
  <<"/","a","c","c","o","u","n","t">>,
  <<"/","p","r","o","f","i","l","e">>,
  <<"/","w","i","s","h","l","i","s","t">>
>>

isNonProductPage(url) == \E d \in Range(nonProductPatterns) : includes(url, d)

isAppStoreLink(url) ==
  \/ includes(url, <<"a","p","p","s",".","a","p","p","l","e",".","c","o","m">>)
  \/ includes(url, <<"p","l","a","y",".","g","o","o","g","l","e",".","c","o","m">>)
  \/ includes(url, <<"a","p","p","-","s","t","o","r","e">>)
  \/ (includes(url, <<"/","a","p","p","/">>) /\ ~includes(url, <<"/","p","r","o","d","u","c","t">>))

\* urlPath === '' || urlPath === '/' || urlPath.trim() === '', outside target.com
isRootUrl(url, hostname) ==
  LET urlPath == pathOfUrl(url)
  IN  /\ ((\A q \in 1..Len(urlPath) : urlPath[q] \in SpaceChar) \/ urlPath = <<"/">>)
      /\ ~includes(hostname, <<"t","a","r","g","e","t",".","c","o","m">>)

knownRetailerDomains == <<
  <<"a","m","a","z","o","n",".","c","o","m">>,
  <<"t","a","r","g","e","t",".","c","o","m">>,
  <<"w","a","l","m","a","r","t",".","c","o","m">>,
  <<"b","e","s","t","b","u","y",".","c","o","m">>,
  <<"e","b","a","y",".","c","o","m">>,
  <<"c","o","s","t","c","o",".","c","o","m">>,
  <<"h","o","m","e","d","e","p","o","t",".","c","o","m">>,
  <<"l","o","w","e","s",".","c","o","m">>,
  <<"k","o","h","l","s",".","c","o","m">>,
  <<"m","a","c","y","s",".","c","o","m">>,
  <<"n","e","w","e","g","g",".","c","o","m">>,
  <<"s","t","a","p","l","e","s",".","c","o","m">>,
  <<"o","f","f","i","c","e","d","e","p","o","t",".","c","o","m">>,
  <<"k","r","o","g","e","r",".","c","o","m">>,
  <<"w","a","l","g","r","e","e","n","s",".","c","o","m">>,
  <<"f","r","y","s","f","o","o","d",".","c","o","m">>
>>

isKnownRetailer(hostname) ==
  \E d \in Range(knownRetailerDomains) : includes(hostname, d)

brandDomains == <<
  <<"j","b","l",".","c","o","m">>,
  <<"n","i","k","e",".","c","o","m">>,
  <<"a","p","p","l","e",".","c","o","m">>,
  <<"s","a","m","s","u","n","g",".","c","o","m">>,
  <<"s","o","n","y",".","c","o","m">>,
  <<"d","e","l","l",".","c","o","m">>
>>

isBrandSite(hostname) == \E d \in Range(brandDomains) : includes(hostname, d)

\* a variant that trusts no retailer without a product path
acceptsPageTypeStrict(url, hostname) == isProductPage(url)

\* the page-type decision once the earlier returns have not been taken
acceptsPageType(url, hostname) ==
  isProductPage(url) \/ (~isBrandSite(hostname) /\ isKnownRetailer(hostname))

\* the returns of the forEach callback that depend on the URL and its host name
rejectedUrl(url, hostname) ==
  \/ isNonCommerce(url)
  \/ isNonUSDomain(url)
  \/ isNonUSHostname(hostname)
  \/ isNonRetailer(hostname, url)
  \/ isNonProductPage(url)
  \/ isAppStoreLink(url)
  \/ isRootUrl(url, hostname)
  \/ ~acceptsPageType(url, hostname)

\* TRUE when the forEach callback returns before the retailer is identified
rejectedBeforeIdentity(item) ==
  rejectedUrl(toLowerCase(linkOf(item)), hostnameOfUrl(toLowerCase(linkOf(item))))

\* extractImageUrl: the image of the item's pagemap, the empty string for null
extractImageUrl(item) == item.image

\* a variant that keeps no record of the retailers added
pushResultNoDedup(acc, item, currentProduct, retailer) ==
  [results |-> Append(acc.results,
                 [retailer |-> retailer, url |-> item.link, imageUrl |-> extractImageUrl(item),
                  title |-> IF item.title # <<>> THEN item.title ELSE currentProduct.title,
                  isCurrentPage |-> FALSE]),
   addedRetailers |-> acc.addedRetailers]

\* the end of an iteration, once the retailer is identified
pushResult(acc, item, currentProduct, retailer) ==
  LET retailerKey == toLowerCase(retailer)
  IN  IF retailerKey \in acc.addedRetailers THEN acc
      ELSE IF retailerKey = toLowerCase(currentProduct.retailer) THEN acc
      ELSE [results |-> Append(acc.results,
                         [retailer |-> retailer, url |-> item.link,
                          imageUrl |-> extractImageUrl(item),
                          title |-> IF item.title # <<>> THEN item.title ELSE currentProduct.title,
                          isCurrentPage |-> FALSE]),
            addedRetailers |-> acc.addedRetailers \cup {retailerKey}]

\* a variant that remembers the retailer of an item it rejects
parseItemMarkingRejected(acc, item, currentProduct) ==
  IF rejectedBeforeIdentity(item)
  THEN [acc EXCEPT !.addedRetailers =
                     @ \cup {toLowerCase(extractRetailerName(linkOf(item)))}]
  ELSE pushResult(acc, item, currentProduct, extractRetailerName(linkOf(item)))

\* a variant that skips every item
parseItemNone(acc, item, currentProduct) == acc

\* one iteration of apiData.items.forEach: acc is [results, addedRetailers]
parseItem(acc, item, currentProduct) ==
  IF rejectedBeforeIdentity(item) THEN acc
  ELSE pushResult(acc, item, currentProduct, extractRetailerName(linkOf(item)))

RECURSIVE parseItems(_, _, _), parseRest(_, _, _)
\* apiData.items.forEach
parseItems(acc, items, currentProduct) ==
  IF items = <<>> THEN acc
  ELSE parseRest(parseItem(acc, Head(items), currentProduct), Tail(items), currentProduct)

\* the iterations after one that left acc (acc is computed before they begin)
parseRest(acc, items, currentProduct) ==
  CASE acc = acc -> parseItems(acc, items, currentProduct)

\* apiData is [hasItems |-> BOOLEAN, items |-> sequence of items]; the entry of the
\* current page is pushed first
parseShoppingResults(apiData, currentProduct) ==
  LET currentPage ==
        [retailer |-> currentProduct.retailer, price |-> currentProduct.price,
         url |-> currentProduct.url, imageUrl |-> currentProduct.imageUrl,
         title |-> currentProduct.title, availability |-> <<"I","n"," ","S","t","o","c","k">>, isCurrentPage |-> TRUE]
  IN  IF apiData.hasItems
      THEN parseItems([results |-> <<currentPage>>,
                       addedRetailers |-> {toLowerCase(currentProduct.retailer)}],
                      apiData.items, currentProduct).results
      ELSE <<currentPage>>

(***************************************************************************)
(* generateFallbackResults.  A price is a whole number of 1/10000 dollar,  *)
(* so that price * 0.95 and price * 1.02 are exact.                        *)
(***************************************************************************)
generateFallbackResults(productInfo) ==
  << [retailer |-> productInfo.retailer, price |-> productInfo.price,
      url |-> productInfo.url, imageUrl |-> productInfo.imageUrl,
      title |-> productInfo.title, availability |-> <<"I","n"," ","S","t","o","c","k">>, isCurrentPage |-> TRUE],
     [retailer |-> <<"T","a","r","g","e","t">>, price |-> (productInfo.price * 95) \div 100,
      url |-> <<"h","t","t","p","s",":","/","/","w","w","w",".","t","a","r","g","e","t",".","c","o","m","/","s","?","s","e","a","r","c","h","T","e","r","m","=">>
              \o encodeURIComponent(substring(productInfo.title, 0, 50)),
      imageUrl |-> productInfo.imageUrl,
      title |-> productInfo.title, availability |-> <<"C","h","e","c","k"," ","S","t","o","r","e">>, isCurrentPage |-> FALSE],
     [retailer |-> <<"W","a","l","m","a","r","t">>, price |-> (productInfo.price * 102) \div 100,
      url |-> <<"h","t","t","p","s",":","/","/","w","w","w",".","w","a","l","m","a","r","t",".","c","o","m","/","s","e","a","r","c","h","?","q","=">>
              \o encodeURIComponent(substring(productInfo.title, 0, 50)),
      imageUrl |-> productInfo.imageUrl,
      title |-> productInfo.title, availability |-> <<"C","h","e","c","k"," ","S","t","o","r","e">>, isCurrentPage |-> FALSE] >>

(***************************************************************************)
(* calculateTitleSimilarity.  A score is the exact fraction num/den (the   *)
(* code's floating-point rounding is not modelled).                        *)
(***************************************************************************)
Min2(a, b) == IF a <= b THEN a ELSE b
Max2(a, b) == IF a >= b THEN a ELSE b

\* matrix[j][i]: the least of the cell to the left + 1, the cell above + 1 and the
\* cell above to the left + the cost of the substitution
levCell(prev, str1, c2, i, left) ==
  Min2(Min2(left + 1, prev[i + 1] + 1), prev[i] + (IF str1[i] = c2 THEN 0 ELSE 1))

RECURSIVE levRow(_, _, _, _, _, _), levRowRest(_, _, _, _, _, _)
\* the cells lo..hi of the row of the character c2, appended left to right to cur; the
\* range is walked by halves, the left half first
levRow(prev, str1, c2, lo, hi, cur) ==
  IF lo > hi THEN cur
  ELSE IF lo = hi THEN Append(cur, levCell(prev, str1, c2, lo, cur[lo]))
  ELSE levRowRest(prev, str1, c2, (lo + hi) \div 2 + 1, hi,
                  levRow(prev, str1, c2, lo, (lo + hi) \div 2, cur))

\* the cells after those of cur (cur is computed before they begin)
levRowRest(prev, str1, c2, lo, hi, cur) ==
  CASE cur = cur -> levRow(prev, str1, c2, lo, hi, cur)

RECURSIVE levRows(_, _, _, _, _), levRowsRest(_, _, _, _, _)
\* the last of the rows lo..hi, each built from the row above; walked by halves
levRows(prev, str1, str2, lo, hi) ==
  IF lo > hi THEN prev
  ELSE IF lo = hi THEN levRow(prev, str1, str2[lo], 1, Len(str1), <<lo>>)
  ELSE levRowsRest(levRows(prev, str1, str2, lo, (lo + hi) \div 2), str1, str2,
                   (lo + hi) \div 2 + 1, hi)

\* the rows after the row prev (prev is computed before they begin)
levRowsRest(prev, str1, str2, lo, hi) ==
  CASE prev = prev -> levRows(prev, str1, str2, lo, hi)

levenshteinDistance(str1, str2) ==
  levRows([i \in 1..(Len(str1) + 1) |-> i - 1], str1, str2, 1, Len(str2))[Len(str1) + 1]

\* intersection and union sizes of the two token sets
jaccardSimilarity(tokens1, tokens2) ==
  [inter |-> Cardinality(Range(tokens1) \cap Range(tokens2)),
   union |-> Cardinality(Range(tokens1) \cup Range(tokens2))]

\* the six patterns of extractModelNumbers (case-sensitive, /g)
modelPatterns == <<
  <<WordB, Cls(Upper, 2, 5), Cls({"-"}, 0, 1), Cls(Digit, 4, 8), WordB>>,
  <<WordB, Cls(Digit, 3, -1), Cls(Upper, 1, 4), WordB>>,
  <<WordB, Cls(Upper \cup Digit, 5, 12), WordB>>,
  <<Cls({"#"}, 1, 1), Cls(Upper \cup Digit \cup {"-"}, 1, -1), WordB>>,
  <<WordB, Cls(Upper, 1, -1), Cls(Digit, 1, -1), Cls(Upper, 0, -1), WordB>>,
  <<WordB, Cls(Digit, 12, 14), WordB>>
>>

removeChars(s, keep) == SelectSeq(s, LAMBDA c : c \in keep)

\* the set of model codes of a title
extractModelNumbers(title) ==
  LET matches == UNION {Range(MatchAllFrom(title, modelPatterns[k], 1)) : k \in 1..Len(modelPatterns)}
      kept    == {m \in matches :
                    Len(m) >= 4 /\ toUpperCase(m) \notin {<<"T","H","E">>, <<"A","N","D">>, <<"F","O","R">>, <<"W","I","T","H">>}}
  IN  {removeChars(toUpperCase(m), WordChar) : m \in kept}

\* .replace(/\s+/g, ' '): a run of white space leaves one blank
collapseSpaces(s) ==
  concatAll([i \in 1..Len(s) |->
               IF s[i] \notin SpaceChar THEN <<s[i]>>
               ELSE IF i < Len(s) /\ s[i + 1] \in SpaceChar THEN <<>>
               ELSE <<" ">>])

trim(s) ==
  LET keep == {q \in 1..Len(s) : s[q] \notin SpaceChar}
  IN  IF keep = {} THEN <<>>
      ELSE SubSeq(s, Least(keep), Greatest(keep))

\* toLowerCase, [^\w\s] to blank, runs of blanks to one blank, trim
normalize(str) ==
  trim(collapseSpaces([i \in 1..Len(str) |->
         IF toLowerChar(str[i]) \in (WordChar \cup SpaceChar) THEN toLowerChar(str[i]) ELSE " "]))

commonWords == {<<"t","h","e">>, <<"a","n","d">>, <<"o","r">>, <<"f","o","r">>, <<"w","i","t","h">>, <<"p","a","c","k">>, <<"p","a","i","r","s">>, <<"p","a","i","r">>, <<"s","e","t">>, <<"b","u","n","d","l","e">>,
                <<"o","f">>, <<"a">>, <<"a","n">>, <<"i","n">>, <<"o","n">>, <<"a","t">>}

\* str.split(/\s+/) of a normalized string
words(str) == splitOn(str, " ")

extractTokens(str) ==
  SelectSeq(words(str), LAMBDA w : Len(w) > 2 /\ w \notin commonWords)

firstTwoWords(str) ==
  join(SubSeq(words(str), 1, Min2(2, Len(words(str)))), <<" ">>)

Score(n, d) == [num |-> n, den |-> d]

ScoreGT(a, b) == a.num * b.den > b.num * a.den
ScoreGE(a, b) == a.num * b.den >= b.num * a.den

\* the threshold of displayComparisonResults
SAME_THRESHOLD == Score(65, 100)

titlesModelMatch(title1, title2) ==
  \E m1 \in extractModelNumbers(title1) : \E m2 \in extractModelNumbers(title2) :
     m1 = m2 \/ includes(m1, m2) \/ includes(m2, m1)

\* the weighted score over the denominator 100 * uni * maxLen, with the brand boost
\* and the generic-words penalty (b10 is ten times the brand score)
weightedScore(bothHaveBrand, inter, uni, maxLen, dist) ==
  LET b10   == IF bothHaveBrand THEN 8 ELSE 3
      den   == 100 * uni * maxLen
      base  == 3 * b10 * uni * maxLen + 40 * inter * maxLen + 30 * (maxLen - dist) * uni
      boost == IF bothHaveBrand /\ 2 * inter > uni
               THEN Min2(95 * uni * maxLen, base + 10 * uni * maxLen) ELSE base
      pen   == IF ~bothHaveBrand /\ 5 * inter > 3 * uni
               THEN Max2(0, boost - 10 * uni * maxLen) ELSE boost
  IN  Score(Min2(den, Max2(0, pen)), den)

\* the last branch of calculateTitleSimilarity
hybridScore(normalized1, normalized2, brand) ==
  LET jac == jaccardSimilarity(extractTokens(normalized1), extractTokens(normalized2))
  IN  weightedScore(brand # <<>> /\ includes(normalized1, brand) /\ includes(normalized2, brand),
                    jac.inter, Max2(jac.union, 1),
                    Max2(Len(normalized1), Len(normalized2)),
                    levenshteinDistance(normalized1, normalized2))

\* the branches after the two titles are normalized
compareNormalized(title1, title2, normalized1, normalized2, brand) ==
  IF normalized1 = normalized2 THEN Score(1, 1)
  ELSE IF includes(normalized1, normalized2) \/ includes(normalized2, normalized1)
       THEN Score(95, 100)
  ELSE IF titlesModelMatch(title1, title2) THEN Score(95, 100)
  ELSE hybridScore(normalized1, normalized2, brand)

calculateTitleSimilarity(title1, title2, currentProduct) ==
  IF title1 = <<>> \/ title2 = <<>> THEN Score(0, 1)
  ELSE compareNormalized(title1, title2, normalize(title1), normalize(title2),
                         IF currentProduct.brand # <<>> THEN normalize(currentProduct.brand)
                         ELSE firstTwoWords(normalize(title1)))

(***************************************************************************)
(* displayComparisonResults: the two groups written into the modal body.   *)
(***************************************************************************)
withSimilarity(result, similarity) ==
  [f \in DOMAIN result \cup {"similarity"} |->
     IF f = "similarity" THEN similarity ELSE result[f]]

\* a variant that counts the threshold itself as the same product
isSameProductFromThreshold(similarity) == ScoreGE(similarity, SAME_THRESHOLD)

\* similarity > 0.65
isSameProduct(similarity) == ScoreGT(similarity, SAME_THRESHOLD)

RECURSIVE insertBySimilarity(_, _)
\* the place of e in a list sorted by (a, b) => b.similarity - a.similarity, stably
insertBySimilarity(sorted, e) ==
  IF sorted = <<>> THEN <<e>>
  ELSE IF ScoreGE(Head(sorted).similarity, e.similarity)
       THEN <<Head(sorted)>> \o insertBySimilarity(Tail(sorted), e)
       ELSE <<e>> \o sorted

\* a variant that leaves the list as it came
keepOrder(list, acc) == list

RECURSIVE sortBySimilarity(_, _)
sortBySimilarity(list, acc) ==
  IF list = <<>> THEN acc
  ELSE sortBySimilarity(Tail(list), insertBySimilarity(acc, Head(list)))

\* one iteration of results.forEach: the current page and the results above the threshold
\* go to sameProducts, the others to similarProducts
placeResult(acc, result, similarity) ==
  IF result.isCurrentPage
  THEN [acc EXCEPT !.same = Append(@, result)]
  ELSE IF isSameProduct(similarity)
       THEN [acc EXCEPT !.same = Append(@, withSimilarity(result, similarity))]
       ELSE [acc EXCEPT !.similar = Append(@, withSimilarity(result, similarity))]

RECURSIVE categorize(_, _, _), categorizeRest(_, _, _)
\* results.forEach of displayComparisonResults: acc is [same, similar]
categorize(results, currentProduct, acc) ==
  IF results = <<>> THEN acc
  ELSE categorizeRest(Tail(results), currentProduct,
         placeResult(acc, Head(results),
           calculateTitleSimilarity(currentProduct.title, Head(results).title, currentProduct)))

\* the iterations after one that left acc (acc is computed before they begin)
categorizeRest(results, currentProduct, acc) ==
  CASE acc = acc -> categorize(results, currentProduct, acc)

\* what the modal body shows after displayComparisonResults(results, currentProduct, modal, isCached):
\* rows are the table rows of section 1 followed by the cards of section 2
modalBody(results, sameProducts, similarProducts, isCached) ==
  [state           |-> "results",
   results         |-> results,
   sameProducts    |-> sameProducts,
   similarProducts |-> similarProducts,
   rows            |-> sameProducts \o similarProducts,
   isCached        |-> isCached]

\* the sort of similarProducts, then the html of the two sections
renderGroups(results, groups, isCached) ==
  modalBody(results, groups.same, sortBySimilarity(groups.similar, <<>>), isCached)

displayComparisonResults(results, currentProduct, isCached) ==
  renderGroups(results, categorize(results, currentProduct, [same |-> <<>>, similar |-> <<>>]),
               isCached)

(***************************************************************************)
(* The data of the model: the product records the page reader delivers,    *)
(* the bodies the search API answers with, and the stored settings.        *)
(***************************************************************************)
\* extractProductInfo returns a record only with a title and a price (price in 1/10000 dollar)
ProductInfo ==
  [amazon |-> [retailer |-> <<"A","m","a","z","o","n">>, title |-> <<"A","n","k","e","r"," ","P","o","w","e","r","C","o","r","e"," ","1","0","0","0","0">>, price |-> 259900,
               imageUrl |-> <<>>, brand |-> <<"A","n","k","e","r">>,
               url |-> <<"h","t","t","p","s",":","/","/","a","m","a","z","o","n",".","c","o","m","/","d","p","/","B","0","0","X","4","W","H","P","5","E">>, priceElement |-> "HTMLElement"],
   target |-> [retailer |-> <<"T","a","r","g","e","t">>, title |-> <<"J","B","L"," ","F","l","i","p"," ","6">>, price |-> 999900,
               imageUrl |-> <<"h","t","t","p","s",":","/","/","t",".","c","o","/","i",".","p","n","g">>, brand |-> <<>>,
               url |-> <<"h","t","t","p","s",":","/","/","w","w","w",".","t","a","r","g","e","t",".","c","o","m","/","p","/","j","b","l","-","f","l","i","p","-","6","/","-","/","A","-","1">>, priceElement |-> "HTMLElement"]]

ProductIds == DOMAIN ProductInfo

Item(link, displayLink, title, image) ==
  [link |-> link, displayLink |-> displayLink, title |-> title, image |-> image]

\* response bodies: without items, with no item, with items the filter rejects, with one
\* item of another retailer, with a mixed batch
ApiResponses ==
  [noItems  |-> [hasItems |-> FALSE, items |-> <<>>],
   empty    |-> [hasItems |-> TRUE,  items |-> <<>>],
   rejected |-> [hasItems |-> TRUE,  items |-> <<
       Item(<<"h","t","t","p","s",":","/","/","e","n",".","w","i","k","i","p","e","d","i","a",".","o","r","g","/","w","i","k","i","/","A","n","k","e","r">>, <<"e","n",".","w","i","k","i","p","e","d","i","a",".","o","r","g">>, <<"A","n","k","e","r">>, <<>>),
       Item(<<"h","t","t","p","s",":","/","/","w","w","w",".","a","m","a","z","o","n",".","c","o",".","u","k","/","d","p","/","B","0","0","X","4","W","H","P","5","E">>, <<"w","w","w",".","a","m","a","z","o","n",".","c","o",".","u","k">>, <<"A","n","k","e","r"," ","P","o","w","e","r","C","o","r","e"," ","1","0","0","0","0">>, <<>>),
       Item(<<"h","t","t","p","s",":","/","/","w","w","w",".","w","a","l","m","a","r","t",".","c","o","m","/">>, <<"w","w","w",".","w","a","l","m","a","r","t",".","c","o","m">>, <<"W","a","l","m","a","r","t">>, <<>>),
       Item(<<"h","t","t","p","s",":","/","/","w","w","w",".","j","b","l",".","c","o","m","/","s","p","e","a","k","e","r","s">>, <<"w","w","w",".","j","b","l",".","c","o","m">>, <<"J","B","L"," ","F","l","i","p"," ","6">>, <<>>) >>],
   single   |-> [hasItems |-> TRUE,  items |-> <<
       Item(<<"h","t","t","p","s",":","/","/","t","a","r","g","e","t",".","c","o","m","/","p","/","a","n","k","e","r","-","p","o","w","e","r","c","o","r","e","-","1","0","0","0","0","/","-","/","A","-","1","2","3","4","5","6","7","8">>, <<"t","a","r","g","e","t",".","c","o","m">>,
            <<"A","n","k","e","r"," ","P","o","w","e","r","C","o","r","e"," ","1","0","0","0","0">>, <<>>) >>],
   mixed    |-> [hasItems |-> TRUE,  items |-> <<
       Item(<<"h","t","t","p","s",":","/","/","w","w","w",".","t","a","r","g","e","t",".","c","o","m","/","p","/","a","n","k","e","r","-","p","o","w","e","r","c","o","r","e","-","1","0","0","0","0","/","-","/","A","-","1","2","3","4","5","6","7","8">>, <<"w","w","w",".","t","a","r","g","e","t",".","c","o","m">>,
            <<"A","n","k","e","r"," ","P","o","w","e","r","C","o","r","e"," ","1","0","0","0","0">>, <<>>),
       Item(<<"h","t","t","p","s",":","/","/","w","w","w",".","e","b","a","y",".","c","o","m","/","i","t","m","/","1","2","3">>, <<"w","w","w",".","e","b","a","y",".","c","o","m">>, <<"U","S","B","-","C"," ","c","h","a","r","g","i","n","g"," ","c","a","b","l","e"," ","2"," ","m">>, <<>>),
       Item(<<"h","t","t","p","s",":","/","/","w","w","w",".","a","m","a","z","o","n",".","c","o","m","/","d","p","/","B","0","0","X","4","W","H","P","5","E">>, <<"w","w","w",".","a","m","a","z","o","n",".","c","o","m">>, <<"A","n","k","e","r"," ","P","o","w","e","r","C","o","r","e"," ","1","0","0","0","0">>, <<>>),
       Item(<<"h","t","t","p","s",":","/","/","w","w","w",".","w","a","l","m","a","r","t",".","c","o","m","/","i","p","/","a","n","k","e","r","/","1","2","3">>, <<"w","w","w",".","w","a","l","m","a","r","t",".","c","o","m">>, <<"A","n","k","e","r"," ","P","o","w","e","r","C","o","r","e"," ","2","0","0","0","0"," ","P","a","c","k">>, <<>>),
       Item(<<"h","t","t","p","s",":","/","/","w","w","w",".","t","a","r","g","e","t",".","c","o","m","/","p","/","o","t","h","e","r","/","-","/","A","-","2">>, <<"w","w","w",".","t","a","r","g","e","t",".","c","o","m">>, <<"A","n","k","e","r"," ","c","a","b","l","e">>, <<>>),
       Item(<<"h","t","t","p","s",":","/","/","w","w","w",".","b","e","s","t","b","u","y",".","c","o","m","/","s","i","t","e","/","j","b","l","-","f","l","i","p","-","6","/","1",".","p">>, <<>>, <<"J","B","L"," ","F","l","i","p"," ","6"," ","B","l","a","c","k">>, <<"h","t","t","p","s",":","/","/","b",".","c","o","/","i",".","p","n","g">>),
       Item(<<"h","t","t","p","s",":","/","/","s","h","o","p",".","e","x","a","m","p","l","e",".","c","o","m","/","p","r","o","d","u","c","t","s","/","f","l","i","p">>, <<"s","h","o","p",".","e","x","a","m","p","l","e",".","c","o","m">>, <<>>, <<>>) >>]]

ResponseIds == DOMAIN ApiResponses

\* what chrome.storage.sync.get yields for the three settings (absent settings take the defaults)
StoredConfigs ==
  { [googleAPIKey |-> <<"K","E","Y">>, googleSearchEngineId |-> <<"C","X">>, enableAPICalls |-> TRUE],
    [googleAPIKey |-> <<"K","E","Y">>, googleSearchEngineId |-> <<"C","X">>, enableAPICalls |-> FALSE],
    [googleAPIKey |-> <<>>,  googleSearchEngineId |-> <<"C","X">>, enableAPICalls |-> TRUE],
    [googleAPIKey |-> <<"K","E","Y">>, googleSearchEngineId |-> <<>>, enableAPICalls |-> TRUE] }

\* the callback of getAPIConfig
getAPIConfig(items) ==
  [apiKey |-> items.googleAPIKey, searchEngineId |-> items.googleSearchEngineId,
   enabled |-> items.enableAPICalls # FALSE]

\* a variant that forgets the search engine id
apiUnavailableKeyOnly(config) == ~config.enabled \/ config.apiKey = <<>>

\* !config.enabled || !config.apiKey || !config.searchEngineId
apiUnavailable(config) ==
  ~config.enabled \/ config.apiKey = <<>> \/ config.searchEngineId = <<>>

(***************************************************************************)
(* The cache in chrome.storage.local                                       *)
(***************************************************************************)
\* 24 * 60 * 60 * 1000
CACHE_TTL_MS == 86400000

NoEntry == [present |-> FALSE]

CacheKeys == {getCacheKey(ProductInfo[p]) : p \in ProductIds}

\* a variant whose entry expires when it is written
saveCachedResultsNoTtl(results, productInfo, t, u) ==
  [present |-> TRUE, results |-> results, productInfo |-> productInfo,
   timestamp |-> t, expiresAt |-> u]

\* the cacheData object of saveCachedResults: it reads the clock twice, t for timestamp
\* and then u for expiresAt
saveCachedResults(results, productInfo, t, u) ==
  [present |-> TRUE, results |-> results, productInfo |-> productInfo,
   timestamp |-> t, expiresAt |-> u + CACHE_TTL_MS]

\* what chrome.storage keeps of a value: its JSON form, in which a DOM element is {}
storageSerialize(entry) ==
  [entry EXCEPT !.productInfo = [@ EXCEPT !.priceElement = "{}"]]

\* a variant that expires an entry one millisecond early
isExpiredAtBoundary(cached, t) == cached.expiresAt # 0 /\ t >= cached.expiresAt

\* cached.expiresAt && now > cached.expiresAt
isExpired(cached, t) == cached.expiresAt # 0 /\ t > cached.expiresAt

\* a variant that never looks at expiresAt
loadCachedResultsNoExpiry(cached, t) ==
  IF ~cached.present THEN [hit |-> FALSE]
  ELSE [hit |-> TRUE, results |-> cached.results, productInfo |-> cached.productInfo,
        timestamp |-> cached.timestamp, isCached |-> TRUE]

\* what loadCachedResults resolves with for the value the get returned, at the clock reading t
loadCachedResults(cached, t) ==
  IF ~cached.present THEN [hit |-> FALSE]
  ELSE IF isExpired(cached, t) THEN [hit |-> FALSE]
  ELSE [hit |-> TRUE, results |-> cached.results, productInfo |-> cached.productInfo,
        timestamp |-> cached.timestamp, isCached |-> TRUE]

(***************************************************************************)
(* Tables of the pure functions over the data of the model.  Each entry is *)
(* the value of the operator it names; the actions read the tables so that *)
(* a value is computed once and not at every step.                         *)
(***************************************************************************)
LiveResults ==
  [p \in ProductIds |-> [d \in ResponseIds |->
     parseShoppingResults(ApiResponses[d], ProductInfo[p])]]

FallbackResults == [p \in ProductIds |-> generateFallbackResults(ProductInfo[p])]

\* the cache key of each product
CacheKeyOf == [p \in ProductIds |-> getCacheKey(ProductInfo[p])]

\* the argument pairs displayComparisonResults is called with: the live and the fallback
\* lists of a product, with the product record or with the product record as
\* chrome.storage returns it
DisplayArgs ==
  UNION { {<<r, q>> : r \in Range(LiveResults[p]) \cup {FallbackResults[p]},
                      q \in {ProductInfo[p],
                             storageSerialize(saveCachedResults(<<>>, ProductInfo[p], 0, 0)).productInfo}} :
          p \in ProductIds }

DisplayTable == [a \in DisplayArgs |-> displayComparisonResults(a[1], a[2], FALSE)]

\* displayComparisonResults, read from the table
display(results, currentProduct, isCached) ==
  [DisplayTable[<<results, currentProduct>>] EXCEPT !.isCached = isCached]

(***************************************************************************)
(* State                                                                   *)
(***************************************************************************)
MaxInvocations == 2
MaxTicks == 1

VARIABLES
  now,     \* Date.now()
  ticks,   \* how often the clock has advanced
  store,   \* chrome.storage.local: cache key -> entry
  calls,   \* the invocations of fetchPriceComparisons, in the order they started
  probe,   \* one call of a function of the pipeline: its arguments and, once made, its value
  page     \* the document: compare button, modal overlays, timers and listeners of the script

vars == <<now, ticks, store, calls, probe, page>>

Invocations == 1..MaxInvocations

\* the document is not looked at
NoPage == [phase |-> "none"]

\* no function is called on its own
NoProbe == [op |-> "none", args |-> <<>>, done |-> FALSE, value |-> <<>>]

IdleCall ==
  [pc |-> "idle", prod |-> "none", got |-> NoEntry, readAt |-> 0, cached |-> [hit |-> FALSE],
   config |-> [apiKey |-> <<>>, searchEngineId |-> <<>>, enabled |-> FALSE],
   race |-> "none", timer |-> "none", net |-> "none", data |-> "none",
   cause |-> "none", body |-> [state |-> "none"], notice |-> "none", wrote |-> NoEntry,
   log |-> <<>>]

\* the clock when the page is loaded
SessionStart == CACHE_TTL_MS + 2

\* the entry an earlier session's live compare left for a product, 24 hours before this
\* session starts: it is in its last fresh millisecond
EarlierEntry(p) ==
  storageSerialize(saveCachedResults(LiveResults[p].mixed, ProductInfo[p],
                                     SessionStart - CACHE_TTL_MS,
                                     SessionStart - CACHE_TTL_MS))

\* chrome.storage.local outlives the page: it starts empty or with the earlier entries
InitialStores ==
  { [k \in CacheKeys |-> NoEntry],
    [k \in CacheKeys |-> EarlierEntry(CHOOSE p \in ProductIds : CacheKeyOf[p] = k)] }

Init ==
  /\ now = SessionStart
  /\ ticks = 0
  /\ store \in InitialStores
  /\ calls = [i \in Invocations |-> IdleCall]
  /\ probe = NoProbe
  /\ page = NoPage

\* a variant in which the last settlement wins
raceLastWins(race, outcome) == outcome

\* Promise.race: the first settlement wins, later ones change nothing
raceSettle(race, outcome) == IF race = "pending" THEN outcome ELSE race

\* productInfo.title.substring throws when the record has no title
fallbackThrows(productInfo) == "title" \notin DOMAIN productInfo

\* showErrorState
showErrorState(c) ==
  [c EXCEPT !.pc = "done", !.body = [state |-> "error"], !.log = Append(@, "error")]

\* generateFallbackResults followed by displayComparisonResults, outside the catch block
showFallback(c) ==
  [c EXCEPT !.pc = "done",
            !.body = display(FallbackResults[c.prod], ProductInfo[c.prod], FALSE),
            !.log = Append(@, "display")]

\* a variant that reports the error without trying the fallback
catchBlockNoFallback(c, cause) == showErrorState([c EXCEPT !.cause = cause])

\* a variant that sends the request again after an error
catchBlockRetry(c, cause) ==
  [c EXCEPT !.pc = "awaitFetch", !.cause = cause, !.race = "pending", !.timer = "armed",
            !.net = "sent", !.log = Append(@, "fetch")]

\* the catch block of fetchPriceComparisons for the error named cause
catchBlock(c, cause) ==
  IF fallbackThrows(ProductInfo[c.prod])
  THEN showErrorState([c EXCEPT !.cause = cause])
  ELSE [showFallback(c) EXCEPT !.cause = cause, !.notice = "scheduled"]

(***************************************************************************)
(* Actions                                                                 *)
(***************************************************************************)
\* fetchPriceComparisons up to its first await: the modal shows the loading state
\* (showLoadingState, by openComparisonModal) and the cache is read
fetchPriceComparisons(p) ==
  /\ \E i \in Invocations :
       /\ calls[i].pc = "idle"
       /\ \A j \in Invocations : j < i => calls[j].pc # "idle"
       /\ calls' = [calls EXCEPT ![i] =
                      [@ EXCEPT !.pc = "awaitCache", !.prod = p,
                                !.got = store[CacheKeyOf[p]],
                                !.body = [state |-> "loading"],
                                !.log = <<"cacheGet">>]]
  /\ UNCHANGED <<now, ticks, store, probe, page>>

\* the callback of chrome.storage.local.get in loadCachedResults, and the code after
\* the await: a hit is displayed, otherwise the settings are requested
loadCachedResultsCallback(i) ==
  LET c       == calls[i]
      key     == CacheKeyOf[c.prod]
      cached  == loadCachedResults(c.got, now)
      removes == c.got.present /\ isExpired(c.got, now)
  IN  /\ c.pc = "awaitCache"
      /\ store' = IF removes THEN [store EXCEPT ![key] = NoEntry] ELSE store
      /\ calls' = [calls EXCEPT ![i] =
           IF cached.hit
           THEN [c EXCEPT !.pc = "done", !.readAt = now, !.cached = cached,
                          !.body = display(cached.results, cached.productInfo, TRUE),
                          !.log = Append(@, "display")]
           ELSE [c EXCEPT !.pc = "awaitConfig", !.readAt = now, !.cached = cached,
                          !.log = @ \o (IF removes THEN <<"cacheRemove">> ELSE <<>>)
                                    \o <<"configRead">>]]
      /\ UNCHANGED <<now, ticks, probe, page>>

\* the callback of chrome.storage.sync.get in getAPIConfig, and the code after the await:
\* the 800 ms wait of the unconfigured path, or the request under fetchWithTimeout
getAPIConfigCallback(i, items) ==
  LET c      == calls[i]
      config == getAPIConfig(items)
  IN  /\ c.pc = "awaitConfig"
      /\ calls' = [calls EXCEPT ![i] =
           IF apiUnavailable(config)
           THEN [c EXCEPT !.pc = "delay", !.config = config]
           ELSE [c EXCEPT !.pc = "awaitFetch", !.config = config, !.race = "pending",
                          !.timer = "armed", !.net = "sent", !.log = Append(@, "fetch")]]
      /\ UNCHANGED <<now, ticks, store, probe, page>>

\* the 800 ms timer of the unconfigured path fires
fallbackDelayElapsed(i) ==
  LET c == calls[i]
  IN  /\ c.pc = "delay"
      /\ calls' = [calls EXCEPT ![i] =
           IF fallbackThrows(ProductInfo[c.prod]) THEN catchBlock(c, "fallback")
           ELSE showFallback(c)]
      /\ UNCHANGED <<now, ticks, store, probe, page>>

\* the 10 s timer of fetchWithTimeout fires: its reject decides the race if fetch() has
\* not settled, and changes nothing otherwise
timeoutFires(i) ==
  LET c       == calls[i]
      settled == raceSettle(c.race, "rejected")
      n       == [c EXCEPT !.race = settled, !.timer = "fired"]
  IN  /\ c.timer = "armed"
      /\ calls' = [calls EXCEPT ![i] =
           IF settled = c.race THEN n ELSE catchBlock(n, "timeout")]
      /\ UNCHANGED <<now, ticks, store, probe, page>>

\* the response headers arrive: fetch() resolves, with response.ok = ok
fetchResolves(i, ok) ==
  LET c       == calls[i]
      settled == raceSettle(c.race, "resolved")
      n       == [c EXCEPT !.race = settled, !.net = "headers"]
  IN  /\ c.net = "sent"
      /\ calls' = [calls EXCEPT ![i] =
           IF settled = c.race THEN n
           ELSE IF ~ok THEN catchBlock(n, "http")
           ELSE [n EXCEPT !.pc = "awaitJson"]]
      /\ UNCHANGED <<now, ticks, store, probe, page>>

\* the request fails in the network: fetch() rejects
fetchRejects(i) ==
  LET c       == calls[i]
      settled == raceSettle(c.race, "rejected")
      n       == [c EXCEPT !.race = settled, !.net = "failed"]
  IN  /\ c.net = "sent"
      /\ calls' = [calls EXCEPT ![i] =
           IF settled = c.race THEN n ELSE catchBlock(n, "network")]
      /\ UNCHANGED <<now, ticks, store, probe, page>>

\* response.json() resolves with the body d: parse, then cache and display; the clock
\* may advance by skew between the two Date.now() calls of saveCachedResults
jsonResolves(i, d, skew) ==
  LET c           == calls[i]
      productInfo == ProductInfo[c.prod]
      key         == CacheKeyOf[c.prod]
      results     == LiveResults[c.prod][d]
      cacheData   == saveCachedResults(results, productInfo, now, now + skew)
  IN  /\ c.pc = "awaitJson"
      /\ skew = 0 \/ ticks < MaxTicks
      /\ now' = now + skew
      /\ ticks' = IF skew = 0 THEN ticks ELSE ticks + 1
      /\ UNCHANGED <<probe, page>>
      /\ IF Len(results) = 0
         THEN /\ calls' = [calls EXCEPT ![i] = showFallback([c EXCEPT !.net = "body", !.data = d])]
              /\ UNCHANGED store
         ELSE /\ store' = [store EXCEPT ![key] = storageSerialize(cacheData)]
              /\ calls' = [calls EXCEPT ![i] =
                   [c EXCEPT !.pc = "done", !.net = "body", !.data = d,
                             !.wrote = cacheData,
                             !.body = display(results, productInfo, FALSE),
                             !.log = @ \o <<"cacheSet", "display">>]]

\* a variant that stores the fallback list it shows
jsonRejectsCachingFallback(i) ==
  LET c == calls[i]
  IN  /\ c.pc = "awaitJson"
      /\ calls' = [calls EXCEPT ![i] = catchBlock([c EXCEPT !.net = "body"], "json")]
      /\ store' = [store EXCEPT ![CacheKeyOf[c.prod]] =
                     storageSerialize(saveCachedResults(FallbackResults[c.prod],
                                                        ProductInfo[c.prod], now, now))]
      /\ UNCHANGED <<now, ticks, probe, page>>

\* response.json() rejects: the body is not JSON
jsonRejects(i) ==
  LET c == calls[i]
  IN  /\ c.pc = "awaitJson"
      /\ calls' = [calls EXCEPT ![i] = catchBlock([c EXCEPT !.net = "body"], "json")]
      /\ UNCHANGED <<now, ticks, store, probe, page>>

\* the 500 ms timer of the catch block fires: the notice is appended to the modal body
showWarning(i) ==
  /\ calls[i].notice = "scheduled"
  /\ calls' = [calls EXCEPT ![i].notice = "shown"]
  /\ UNCHANGED <<now, ticks, store, probe, page>>

\* time passes
Tick(d) ==
  /\ ticks < MaxTicks
  /\ now' = now + d
  /\ ticks' = ticks + 1
  /\ UNCHANGED <<store, calls, probe, page>>

TickSteps == {1, CACHE_TTL_MS}

\* by how much the clock advances between two consecutive Date.now() calls
ClockSkews == {0, 1}

Next ==
  \/ \E p \in ProductIds : fetchPriceComparisons(p)
  \/ \E i \in Invocations : loadCachedResultsCallback(i)
  \/ \E i \in Invocations : \E items \in StoredConfigs : getAPIConfigCallback(i, items)
  \/ \E i \in Invocations : fallbackDelayElapsed(i)
  \/ \E i \in Invocations : timeoutFires(i)
  \/ \E i \in Invocations : \E ok \in BOOLEAN : fetchResolves(i, ok)
  \/ \E i \in Invocations : fetchRejects(i)
  \/ \E i \in Invocations : \E d \in ResponseIds : \E skew \in ClockSkews : jsonResolves(i, d, skew)
  \/ \E i \in Invocations : jsonRejects(i)
  \/ \E i \in Invocations : showWarning(i)
  \/ \E d \in TickSteps : Tick(d)

Spec == Init /\ [][Next]_vars

\* the event loop runs every callback and timer that is due; the network owes nothing
Fairness ==
  \A i \in Invocations :
    /\ WF_vars(loadCachedResultsCallback(i))
    /\ WF_vars(\E items \in StoredConfigs : getAPIConfigCallback(i, items))
    /\ WF_vars(fallbackDelayElapsed(i))
    /\ WF_vars(timeoutFires(i))
    /\ WF_vars(showWarning(i))

FairSpec == Spec /\ Fairness

(***************************************************************************)
(* The functions of the pipeline called on their own: the arguments are    *)
(* drawn at the start, and one step makes the call.                        *)
(***************************************************************************)
\* the items a search response may hold
ProbeItems ==
  { Item(<<"h","t","t","p","s",":","/","/","w","w","w",".","t","a","r","g","e","t",".","c","o","m","/","p","/","a","n","k","e","r","/","-","/","A","-","1">>, <<"w","w","w",".","t","a","r","g","e","t",".","c","o","m">>, <<"A","n","k","e","r"," ","P","o","w","e","r","C","o","r","e"," ","1","0","0","0","0">>, <<>>),
    Item(<<"h","t","t","p","s",":","/","/","w","w","w",".","t","a","r","g","e","t",".","c","o","m","/","p","/","o","t","h","e","r","/","-","/","A","-","2">>, <<"w","w","w",".","t","a","r","g","e","t",".","c","o","m">>, <<"A","n","k","e","r"," ","c","a","b","l","e">>, <<>>),
    Item(<<"h","t","t","p","s",":","/","/","w","w","w",".","t","a","r","g","e","t",".","c","o","m","/">>, <<"w","w","w",".","t","a","r","g","e","t",".","c","o","m">>, <<"T","a","r","g","e","t">>, <<>>),
    Item(<<"h","t","t","p","s",":","/","/","w","w","w",".","w","a","l","m","a","r","t",".","c","o","m","/","i","p","/","a","n","k","e","r","/","1","2","3">>, <<"w","w","w",".","w","a","l","m","a","r","t",".","c","o","m">>, <<"A","n","k","e","r"," ","P","o","w","e","r","C","o","r","e"," ","2","0","0","0","0">>, <<>>),
    Item(<<"h","t","t","p","s",":","/","/","W","W","W",".","W","A","L","M","A","R","T",".","C","O","M","/","c","p","/","e","l","e","c","t","r","o","n","i","c","s">>, <<"w","w","w",".","w","a","l","m","a","r","t",".","c","o","m">>, <<>>, <<>>),
    Item(<<"h","t","t","p","s",":","/","/","w","w","w",".","w","a","l","m","a","r","t",".","c","o","m","/">>, <<"w","w","w",".","w","a","l","m","a","r","t",".","c","o","m">>, <<"W","a","l","m","a","r","t">>, <<>>),
    Item(<<"h","t","t","p","s",":","/","/","w","w","w",".","e","b","a","y",".","c","o","m","/","i","t","m","/","1","2","3">>, <<"w","w","w",".","e","b","a","y",".","c","o","m">>, <<"A","n","k","e","r">>, <<"h","t","t","p","s",":","/","/","b",".","c","o","/","i",".","p","n","g">>),
    Item(<<"h","t","t","p","s",":","/","/","w","w","w",".","a","m","a","z","o","n",".","c","o","m","/","p","r","o","d","u","c","t","/","r","e","v","i","e","w","s","/","B","0">>, <<"w","w","w",".","a","m","a","z","o","n",".","c","o","m">>, <<"R","e","v","i","e","w","s">>, <<>>),
    Item(<<"h","t","t","p","s",":","/","/","w","w","w",".","b","e","s","t","b","u","y",".","c","o","m","/","a","p","p","/","d","e","a","l","s">>, <<"w","w","w",".","b","e","s","t","b","u","y",".","c","o","m">>, <<"D","e","a","l","s">>, <<>>),
    Item(<<"h","t","t","p","s",":","/","/","w","w","w",".","j","b","l",".","c","o","m","/","s","p","e","a","k","e","r","s">>, <<"w","w","w",".","j","b","l",".","c","o","m">>, <<"J","B","L">>, <<>>),
    Item(<<"h","t","t","p","s",":","/","/","d","e","l","l",".","c","o","m",".","e","b","a","y",".","c","o","m","/","d","e","a","l","s">>, <<"d","e","l","l",".","c","o","m",".","e","b","a","y",".","c","o","m">>, <<"D","e","l","l">>, <<>>),
    Item(<<"h","t","t","p","s",":","/","/","a","p","p","s",".","a","p","p","l","e",".","c","o","m","/","u","s","/","a","p","p","/","x">>, <<"a","p","p","s",".","a","p","p","l","e",".","c","o","m">>, <<"A","p","p">>, <<>>),
    Item(<<"h","t","t","p","s",":","/","/","s","h","o","p",".","e","x","a","m","p","l","e",".","c","o","m","/","p","r","o","d","u","c","t","s","/","f","l","i","p">>, <<"s","h","o","p",".","e","x","a","m","p","l","e",".","c","o","m">>, <<"F","l","i","p">>, <<>>),
    Item(<<"h","t","t","p","s",":","/","/","s","h","o","p",".","e","x","a","m","p","l","e",".","c","o","m","/","d","e","a","l","s">>, <<"s","h","o","p",".","e","x","a","m","p","l","e",".","c","o","m">>, <<"D","e","a","l","s">>, <<>>),
    Item(<<"h","t","t","p","s",":","/","/","w","w","w",".","r","e","i",".","c","o","m","/","p","r","o","d","u","c","t","s","/","x">>, <<"w","w","w",".","r","e","i",".","c","o","m">>, <<"T","e","n","t">>, <<>>),
    Item(<<"h","t","t","p","s",":","/","/","w","w","w",".","r","e","i","s","s",".","c","o","m","/","p","r","o","d","u","c","t","s","/","x">>, <<"w","w","w",".","r","e","i","s","s",".","c","o","m">>, <<"C","o","a","t">>, <<>>),
    Item(<<"h","t","t","p","s",":","/","/","w","w","w",".","p","i","n","e","a","p","p","l","e",".","c","o","m","/","p","r","o","d","u","c","t","s","/","x">>, <<"w","w","w",".","p","i","n","e","a","p","p","l","e",".","c","o","m">>, <<"C","a","s","e">>, <<>>),
    Item(<<"h","t","t","p","s",":","/","/","w","w","w",".","t","a","r","g","e","t","o","p","t","i","c","a","l",".","c","o","m","/","p","r","o","d","u","c","t","s","/","x">>, <<"w","w","w",".","t","a","r","g","e","t","o","p","t","i","c","a","l",".","c","o","m">>, <<"G","l","a","s","s","e","s">>, <<>>),
    Item(<<>>, <<"w","w","w",".","c","o","s","t","c","o",".","c","o","m","/","p","r","o","d","u","c","t","s","/","x">>, <<"C","o","s","t","c","o">>, <<>>),
    Item(<<"h","t","t","p","s",":","/","/","e","x","a","m","p","l","e",".","o","r","g","/","p","r","o","d","u","c","t","s","/","x">>, <<"e","x","a","m","p","l","e",".","o","r","g">>, <<"O","r","g">>, <<>>),
    Item(<<"h","t","t","p","s",":","/","/","r","e","s","e","a","r","c","h","g","e","a","r",".","o","r","g",":","8","0","8","0","/","p","r","o","d","u","c","t","s","/","x">>, <<"r","e","s","e","a","r","c","h","g","e","a","r",".","o","r","g">>, <<"G","e","a","r">>, <<>>),
    Item(<<"h","t","t","p","s",":","/","/","s","h","o","p",".","e","x","a","m","p","l","e",".","e","d","u","/","p","r","o","d","u","c","t","s","/","x">>, <<"s","h","o","p",".","e","x","a","m","p","l","e",".","e","d","u">>, <<"E","d","u">>, <<>>),
    Item(<<"h","t","t","p","s",":","/","/","s","h","o","p",".","e","x","a","m","p","l","e",".","e","d","u",":","8","0","8","0","/","p","r","o","d","u","c","t","s","/","x">>, <<"s","h","o","p",".","e","x","a","m","p","l","e",".","e","d","u">>, <<"E","d","u">>, <<>>),
    Item(<<"h","t","t","p","s",":","/","/","e","x","a","m","p","l","e",".","g","o","v","?","p","=","/","p","r","o","d","u","c","t","s","/","x">>, <<"e","x","a","m","p","l","e",".","g","o","v">>, <<"G","o","v">>, <<>>),
    Item(<<"h","t","t","p","s",":","/","/","w","w","w",".","a","m","a","z","o","n",".","c","o",".","u","k","/","d","p","/","B","0","0","X","4","W","H","P","5","E">>, <<"w","w","w",".","a","m","a","z","o","n",".","c","o",".","u","k">>, <<"A","n","k","e","r"," ","P","o","w","e","r","C","o","r","e"," ","1","0","0","0","0">>, <<>>),
    Item(<<"h","t","t","p","s",":","/","/","e","x","a","m","p","l","e",".","d","e","/","p","r","o","d","u","c","t","s","/","x">>, <<"e","x","a","m","p","l","e",".","d","e">>, <<"D","e">>, <<>>),
    Item(<<"h","t","t","p","s",":","/","/","e","x","a","m","p","l","e",".","j","p","/","p","r","o","d","u","c","t","s","/","x">>, <<"e","x","a","m","p","l","e",".","j","p">>, <<"J","p">>, <<>>),
    Item(<<"h","t","t","p","s",":","/","/","e","x","a","m","p","l","e",".","j","p",":","8","0","8","0","/","p","r","o","d","u","c","t","s","/","x">>, <<"e","x","a","m","p","l","e",".","j","p">>, <<"J","p">>, <<>>),
    Item(<<"h","t","t","p","s",":","/","/","e","x","a","m","p","l","e",".","u","k","?","p","=","/","p","r","o","d","u","c","t","s","/","x">>, <<"e","x","a","m","p","l","e",".","u","k">>, <<"U","k">>, <<>>) }

\* the product records of three retailers the page reader knows
ProbeProducts ==
  { ProductInfo.amazon, ProductInfo.target,
    [ProductInfo.target EXCEPT !.retailer = <<"W","a","l","m","a","r","t">>, !.url = <<"h","t","t","p","s",":","/","/","w","w","w",".","w","a","l","m","a","r","t",".","c","o","m","/","i","p","/","j","b","l","/","1">>] }

\* the batches of a response hold at most MaxBatch items: any item, followed by items
\* that pass the stages before the retailer is identified
MaxBatch == 2

RECURSIVE Batches(_)
Batches(n) ==
  IF n = 0 THEN {<<>>}
  ELSE {<<>>} \cup {<<i>> : i \in ProbeItems}
              \cup {b \o <<i>> : b \in Batches(n - 1) \ {<<>>},
                                i \in {j \in ProbeItems : ~rejectedBeforeIdentity(j)}}

\* a string as a JavaScript value, and the values that are not strings
Str(s) == [type |-> "string", truthy |-> s # <<>>, str |-> s]

NonStrings ==
  { [type |-> t, truthy |-> FALSE, str |-> <<>>] : t \in {"undefined", "null", "number", "boolean"} }
  \cup { [type |-> t, truthy |-> TRUE, str |-> <<>>] : t \in {"number", "boolean", "object", "array"} }

(***************************************************************************)
(* parsePriceText and parsePriceTextUSDOnly.  A number is the exact        *)
(* fraction num/den; null is [isNull |-> TRUE].                            *)
(***************************************************************************)
Null == [isNull |-> TRUE, num |-> 0, den |-> 1]

RECURSIVE parseFloat(_)
\* parseFloat of digits with an optional point and digits
parseFloat(cleaned) ==
  IF cleaned = <<>> THEN [isNull |-> FALSE, num |-> 0, den |-> 1]
  ELSE LET c    == cleaned[Len(cleaned)]
           rest == parseFloat(SubSeq(cleaned, 1, Len(cleaned) - 1))
       IN  IF c = "." THEN [rest EXCEPT !.den = 1]
           ELSE [isNull |-> FALSE,
                 num |-> 10 * rest.num + (CHOOSE d \in 0..9 : <<"0","1","2","3","4","5","6","7","8","9">>[d + 1] = c),
                 den |-> IF \E q \in 1..Len(cleaned) : cleaned[q] = "." THEN 10 * rest.den ELSE 1]

RECURSIVE groupedEnd(_, _)
\* (?:[, \u00A0][0-9]{3})* from position e on: the position after the last group
groupedEnd(s, e) ==
  IF /\ e + 3 <= Len(s)
     /\ s[e] \in {",", " ", "nbsp"}
     /\ \A q \in (e + 1)..(e + 3) : s[q] \in Digit
  THEN groupedEnd(s, e + 4) ELSE e

\* what [0-9]{1,3}(?:[, \u00A0][0-9]{3})*(?:\.[0-9]{2})? matches at the digit at p, or with
\* (?:\.[0-9]+)? when anyFraction: the first alternative matches whenever a digit is at
\* p, so the second alternative [0-9]+... is never tried
numberAt(s, p, anyFraction) ==
  LET g    == groupedEnd(s, p + RunLength(s, p, Cls(Digit, 1, 3), 3))
      frac == RunLength(s, g + 1, Cls(Digit, 1, -1), Len(s))
  IN  SubSeq(s, p, IF g <= Len(s) /\ s[g] = "." /\ frac >= (IF anyFraction THEN 1 ELSE 2)
                   THEN g + (IF anyFraction THEN frac ELSE 2)
                   ELSE g - 1)

\* text is a JavaScript value; the match starts at the first $ that white space and a
\* digit follow
parsePriceTextUSDOnly(text) ==
  LET s      == text.str
      digit(q) == q + 1 + RunLength(s, q + 1, Cls(SpaceChar, 0, -1), Len(s))
      starts == {q \in 1..Len(s) : s[q] = "$" /\ digit(q) <= Len(s) /\ s[digit(q)] \in Digit}
      value  == parseFloat(removeChars(numberAt(s, digit(Least(starts)), FALSE),
                                       Digit \cup {"."}))
  IN  IF ~text.truthy \/ text.type # "string" THEN Null
      ELSE IF starts = {} THEN Null
      ELSE IF value.num <= 0 THEN Null
      ELSE value

\* text is a JavaScript value; the optional sign and the white space before the number
\* make the match end at the first digit of the text
parsePriceText(text) ==
  LET s      == replaceChars(text.str, {"nbsp"}, <<" ">>)
      digits == {q \in 1..Len(s) : s[q] \in Digit}
  IN  IF ~text.truthy \/ text.type # "string" THEN Null
      ELSE IF digits = {} THEN Null
      ELSE parseFloat(removeChars(numberAt(s, Least(digits), TRUE), Digit \cup {"."}))

\* price texts of pages and of search results
ProbePrices ==
  { Str(<<"$","4","5",".","0","0">>), Str(<<"pound","4","5",".","0","0">>), Str(<<"C","$","4","5",".","0","0">>), Str(<<"A","$"," ","4","5",".","0","0">>), Str(<<"euro","4","5",".","0","0">>),
    Str(<<"yen","4","5","0","0">>), Str(<<"peso","2",",","4","0","0",".","0","0">>), Str(<<"pound","4","0",".","0","0"," ","(","$","4","5",".","0","0",")">>), Str(<<"$","0",".","0","0">>), Str(<<"0">>),
    Str(<<"$","0">>), Str(<<"F","r","e","e">>), Str(<<"$">>), Str(<<>>), Str(<<"$","1",",","2","3","4",".","5","6">>), Str(<<"$","1","2","3","4",".","5","6">>),
    Str(<<"$","1","nbsp","2","3","4",".","5","0">>), Str(<<"$"," ","4","5">>), Str(<<"4","5",".","0","0">>), Str(<<"U","S","D"," ","4","5",".","5">>), Str(<<"$","4","5",".","5">>),
    Str(<<"N","o","w"," ","$","1","9",".","9","9"," ","w","a","s"," ","$","2","9",".","9","9">>), Str(<<"-","5">>), Str(<<"1",",","2","3","4",",","5","6","7",".","8","9","1">>),
    Str(<<"$","2","4","0","0">>), Str(<<"$","2",",","4","0","0">>), Str(<<"$","9","9","9",".","9","9">>) }
  \cup NonStrings

\* what extractRetailerName may be handed: links and display links of items, texts that
\* are no URLs, the empty string and values that are not strings
ProbeUrls ==
  { Str(i.link) : i \in ProbeItems } \cup { Str(i.displayLink) : i \in ProbeItems }
  \cup { Str(<<"h","t","t","p","s",":","/","/","e","x","a"," ","m","p","l","e",".","c","o","m","/","p","/","1">>), Str(<<"h","t","t","p","s",":","/","/","w","w","w",".","k","o","h","l","s",".","c","o","m",":","x","/","p","/","1">>), Str(<<"h","t","t","p",":","/","/">>),
         Str(<<"h","t","t","p","s",":","/","/","/","d","p","/","1">>), Str(<<"h","t","t","p","s",":","/","/","m","a","c","y","s"," ",".","c","o","m","/","s","h","o","p">>), Str(<<"k","o","h","l","s",".","c","o","m">>),
         Str(<<"l","o","c","a","l","h","o","s","t">>), Str(<<"n","o","t"," ","a"," ","u","r","l">>) }
  \cup NonStrings

\* titles of products and of search results
ProbeTitles ==
  { <<"J","B","L"," ","F","l","i","p"," ","6"," ","P","o","r","t","a","b","l","e"," ","S","p","e","a","k","e","r"," ","(","B","l","a","c","k",")">>, <<"J","B","L"," ","F","L","I","P","6"," ","B","T"," ","S","p","e","a","k","e","r"," ","-"," ","B","l","a","c","k">>, <<"J","B","L"," ","F","l","i","p"," ","6">>, <<"J","B","L"," ","X","L"," ","6">>,
    <<"j","b","l"," ","f","l","i","p"," ","6">>, <<"s","o","n","y"," ","w","i","r","e","l","e","s","s"," ","h","e","a","d","p","h","o","n","e","s">>, <<"w","i","r","e","l","e","s","s"," ","h","e","a","d","p","h","o","n","e","s"," ","b","y"," ","s","o","n","y">>, <<"S","o","n","y"," ","W","H","-","1","0","0","0","X","M","4">>,
    <<"S","O","N","Y"," ","W","H","1","0","0","0","X","M","4"," ","H","e","a","d","p","h","o","n","e","s">>, <<"A","n","k","e","r"," ","P","o","w","e","r","C","o","r","e"," ","1","0","0","0","0">>, <<"A","n","k","e","r"," ","c","a","b","l","e">>, <<>> }

\* the third argument of calculateTitleSimilarity: null (or a product without brand) and a
\* product with a brand
ProbeHints == { [brand |-> <<>>], [brand |-> <<"J","B","L">>] }

\* the lists displayComparisonResults may be handed for the product q: the entry of the
\* current page and up to n entries of other retailers
RECURSIVE ProbeLists(_, _)
ProbeLists(q, n) ==
  IF n = 0 THEN {<<generateFallbackResults(q)[1]>>}
  ELSE ProbeLists(q, n - 1)
       \cup {l \o <<[retailer |-> <<"S","h","o","p">>, url |-> <<"h","t","t","p","s",":","/","/","s","h","o","p",".","e","x","a","m","p","l","e",".","c","o","m","/","p","r","o","d","u","c","t","s","/","f","l","i","p">>,
                      imageUrl |-> <<>>, title |-> t, isCurrentPage |-> FALSE]>> :
               l \in ProbeLists(q, n - 1), t \in ProbeTitles \ {<<>>}}

\* retailer and URL of product pages, as extractProductInfo reads them
ProbeKeyProducts ==
  { [retailer |-> ProductInfo[p].retailer, url |-> ProductInfo[p].url] : p \in ProductIds }
  \cup { [retailer |-> <<"A","m","a","z","o","n">>, url |-> u] :
           u \in { <<"h","t","t","p","s",":","/","/","w","w","w",".","a","m","a","z","o","n",".","c","o","m","/","d","p","/","B","0","0","X","4","W","H","P","5","E">>, <<"h","t","t","p","s",":","/","/","w","w","w",".","a","m","a","z","o","n",".","c","o","m","/","d","p","/","B","0","0","X","4","W","H","P","5","E","?","t","h","=","1">> } }
  \cup { [retailer |-> <<"W","a","l","m","a","r","t">>, url |-> u] :
           u \in { <<"h","t","t","p","s",":","/","/","w","w","w",".","w","a","l","m","a","r","t",".","c","o","m","/","i","p","/","a","n","k","e","r","-","p","o","w","e","r","/","1","2","3">>, <<"h","t","t","p","s",":","/","/","w","w","w",".","w","a","l","m","a","r","t",".","c","o","m","/","i","p","/","a","n","k","e","r",".","p","o","w","e","r","/","1","2","3">>,
                   <<"h","t","t","p","s",":","/","/","w","w","w",".","w","a","l","m","a","r","t",".","c","o","m","/","i","p","/","a","n","k","e","r","_","p","o","w","e","r","/","1","2","3">> } }
  \cup { [retailer |-> <<"T","a","r","g","e","t">>, url |-> u] :
           u \in { <<"h","t","t","p","s",":","/","/","w","w","w",".","t","a","r","g","e","t",".","c","o","m","/","p","/","a","/","b">>, <<"h","t","t","p","s",":","/","/","w","w","w",".","t","a","r","g","e","t",".","c","o","m","/","p","/","a","_","2","F","b">> } }
  \cup { [retailer |-> <<"B","e","s","t"," ","B","u","y">>, url |-> <<"h","t","t","p","s",":","/","/","w","w","w",".","b","e","s","t","b","u","y",".","c","o","m","/","s","i","t","e","/","j","b","l","-","f","l","i","p","-","6","/","1",".","p">>],
          [retailer |-> <<"e","B","a","y">>, url |-> <<"h","t","t","p","s",":","/","/","w","w","w",".","e","b","a","y",".","c","o","m","/","i","t","m","/","1","2","3">>] }

\* the calls that may be made
ProbeInputs ==
  { [op |-> "parseShoppingResults", args |-> <<[hasItems |-> TRUE, items |-> b], q>>,
     done |-> FALSE, value |-> <<>>] : b \in Batches(MaxBatch), q \in ProbeProducts }
  \cup { [op |-> "extractRetailerName", args |-> <<u>>, done |-> FALSE, value |-> <<>>] :
           u \in ProbeUrls }
  \cup { [op |-> "calculateTitleSimilarity", args |-> <<a, b, h>>, done |-> FALSE, value |-> <<>>] :
           a \in ProbeTitles, b \in ProbeTitles, h \in ProbeHints }
  \cup { [op |-> f, args |-> <<t>>, done |-> FALSE, value |-> <<>>] :
           f \in {"parsePriceText", "parsePriceTextUSDOnly"}, t \in ProbePrices }
  \cup { [op |-> "getCacheKey", args |-> <<q>>, done |-> FALSE, value |-> <<>>] :
           q \in ProbeKeyProducts }
  \cup UNION { { [op |-> "displayComparisonResults", args |-> <<l, q>>, done |-> FALSE,
                  value |-> <<>>] : l \in ProbeLists(q, MaxBatch) } :
               q \in {ProductInfo.target, [ProductInfo.target EXCEPT !.brand = <<"J","B","L">>]} }

PureInit ==
  /\ now = SessionStart
  /\ ticks = 0
  /\ store = [k \in CacheKeys |-> NoEntry]
  /\ calls = [i \in Invocations |-> IdleCall]
  /\ probe \in ProbeInputs
  /\ page = NoPage

\* the value v of the call is there
returns(v) ==
  /\ ~probe.done
  /\ probe' = [probe EXCEPT !.done = TRUE, !.value = v]
  /\ UNCHANGED <<now, ticks, store, calls, page>>

parseShoppingResultsCall ==
  /\ probe.op = "parseShoppingResults"
  /\ returns(parseShoppingResults(probe.args[1], probe.args[2]))

\* extractRetailerName for any value: a value that is not a string and not falsy has no
\* startsWith, and in the catch block no match, so the TypeError leaves the function
extractRetailerNameCall ==
  /\ probe.op = "extractRetailerName"
  /\ returns(IF ~probe.args[1].truthy THEN [threw |-> FALSE, result |-> OtherRetailer]
             ELSE IF probe.args[1].type # "string" THEN [threw |-> TRUE, result |-> <<>>]
             ELSE [threw |-> FALSE, result |-> extractRetailerName(probe.args[1].str)])

calculateTitleSimilarityCall ==
  /\ probe.op = "calculateTitleSimilarity"
  /\ returns(calculateTitleSimilarity(probe.args[1], probe.args[2], probe.args[3]))

displayComparisonResultsCall ==
  /\ probe.op = "displayComparisonResults"
  /\ returns(displayComparisonResults(probe.args[1], probe.args[2], FALSE))

parsePriceTextCall ==
  /\ probe.op = "parsePriceText"
  /\ returns(parsePriceText(probe.args[1]))

parsePriceTextUSDOnlyCall ==
  /\ probe.op = "parsePriceTextUSDOnly"
  /\ returns(parsePriceTextUSDOnly(probe.args[1]))

getCacheKeyCall ==
  /\ probe.op = "getCacheKey"
  /\ returns(getCacheKey(probe.args[1]))

PureNext ==
  \/ parseShoppingResultsCall
  \/ extractRetailerNameCall
  \/ calculateTitleSimilarityCall
  \/ displayComparisonResultsCall
  \/ parsePriceTextCall
  \/ parsePriceTextUSDOnlyCall
  \/ getCacheKeyCall

PureSpec == PureInit /\ [][PureNext]_vars

(***************************************************************************)
(* The document: the compare button, the modal overlays, and the timers    *)
(* and listeners of the script.  Overlays are in document order; a modal   *)
(* is appended to the body, so the order is the order of opening.          *)
(***************************************************************************)
MaxOpens == 3
MaxMutations == 2
MaxPending == 3

\* the MutationObserver callback: the pending check is cancelled and a new one is due
\* in 500 ms
observe(pg) == IF pg.observing THEN [pg EXCEPT !.checkTimer = "armed"] ELSE pg

\* a variant that inserts a button without looking for one
checkAndInjectButtonUnguarded(pg) ==
  IF pg.supported /\ pg.product THEN observe([pg EXCEPT !.buttons = @ + 1]) ELSE pg

\* injectCompareButton: product is whether extractProductInfo finds a title, a price and
\* the price element
injectCompareButton(pg) ==
  IF ~pg.product THEN pg
  ELSE IF pg.buttons > 0 THEN pg
  ELSE observe([pg EXCEPT !.buttons = @ + 1])

checkAndInjectButton(pg) ==
  IF ~pg.supported THEN pg
  ELSE IF pg.buttons > 0 THEN pg
  ELSE IF pg.product THEN injectCompareButton(pg)
  ELSE pg

\* closeComparisonModal: the first overlay of the document gets the closing class and a
\* 200 ms timer that removes it
closeComparisonModal(pg) ==
  IF pg.overlays = <<>> THEN pg
  ELSE [pg EXCEPT !.overlays[1].closing = TRUE,
                  !.closeTimers = Append(@, pg.overlays[1].id)]

RECURSIVE runEscapeHandlers(_, _)
\* the keydown listeners of n opened modals, on Escape: each closes and removes itself
runEscapeHandlers(pg, n) ==
  IF n = 0 THEN pg
  ELSE runEscapeHandlers([closeComparisonModal(pg) EXCEPT !.escapeHandlers = @ - 1], n - 1)

\* the document when initComparisonFeature has returned: while the document is loading
\* the first check waits for DOMContentLoaded, otherwise it has run; the observer is
\* registered after it
initComparisonFeature(loading, supported, product) ==
  LET start == [phase |-> "ready", loading |-> loading, supported |-> supported,
                product |-> product, buttons |-> 0, observing |-> FALSE,
                checkTimer |-> "none", overlays |-> <<>>, closeTimers |-> <<>>,
                escapeHandlers |-> 0, opened |-> 0, mutations |-> 0,
                pageChanged |-> FALSE, lastCheck |-> "none"]
  IN  [(IF loading THEN start ELSE checkAndInjectButton(start)) EXCEPT !.observing = TRUE]

PageInit ==
  /\ now = SessionStart
  /\ ticks = 0
  /\ store = [k \in CacheKeys |-> NoEntry]
  /\ calls = [i \in Invocations |-> IdleCall]
  /\ probe = NoProbe
  /\ page \in {initComparisonFeature(l, s, p) : l \in BOOLEAN, s \in BOOLEAN, p \in BOOLEAN}

\* the listener of DOMContentLoaded
DOMContentLoaded ==
  /\ page.loading
  /\ page' = [checkAndInjectButton([page EXCEPT !.loading = FALSE]) EXCEPT !.pageChanged = FALSE]
  /\ UNCHANGED <<now, ticks, store, calls, probe>>

\* the page changes its own DOM: the price block appears or goes, the button is removed
\* with the block it was inserted after, or something else is added
PageMutations == {"addPrice", "removePrice", "removeButton", "other"}

externalMutation(kind) ==
  /\ page.mutations < MaxMutations
  /\ kind = "addPrice" => ~page.product
  /\ kind = "removePrice" => page.product
  /\ kind = "removeButton" => page.buttons > 0
  /\ page' = observe([page EXCEPT !.product = IF kind = "addPrice" THEN TRUE
                                             ELSE IF kind = "removePrice" THEN FALSE ELSE @,
                                  !.buttons = IF kind = "removeButton" THEN 0 ELSE @,
                                  !.mutations = @ + 1,
                                  !.pageChanged = TRUE])
  /\ UNCHANGED <<now, ticks, store, calls, probe>>

\* the 500 ms timer of the observer fires: checkAndInjectButton
debounceFires ==
  /\ page.checkTimer = "armed"
  /\ LET checked == checkAndInjectButton([page EXCEPT !.checkTimer = "none"])
     IN  page' = [checked EXCEPT !.pageChanged = FALSE,
                                 !.lastCheck = IF checked.buttons = page.buttons
                                               THEN (IF page.pageChanged THEN "nothing" ELSE "nothingOwn")
                                               ELSE "inserted"]
  /\ UNCHANGED <<now, ticks, store, calls, probe>>

\* a click on the compare button: openComparisonModal closes, appends a new modal in
\* the loading state, starts fetchPriceComparisons for it and listens for Escape
openComparisonModal ==
  /\ page.buttons > 0
  /\ page.opened < MaxOpens
  /\ Len(closeComparisonModal(page).closeTimers) <= MaxPending
  /\ page' = observe([closeComparisonModal(page) EXCEPT
                        !.overlays = Append(@, [id |-> page.opened + 1, closing |-> FALSE,
                                                body |-> "loading"]),
                        !.opened = @ + 1,
                        !.escapeHandlers = @ + 1])
  /\ UNCHANGED <<now, ticks, store, calls, probe>>

\* a click on the close button of a modal or on an overlay
closeClick ==
  /\ page.overlays # <<>>
  /\ Len(page.closeTimers) < MaxPending
  /\ page' = closeComparisonModal(page)
  /\ UNCHANGED <<now, ticks, store, calls, probe>>

\* the Escape key is pressed
escapeKey ==
  /\ page.escapeHandlers > 0
  /\ Len(runEscapeHandlers(page, page.escapeHandlers).closeTimers) <= MaxPending
  /\ page' = runEscapeHandlers(page, page.escapeHandlers)
  /\ UNCHANGED <<now, ticks, store, calls, probe>>

\* the oldest 200 ms timer fires: its modal is removed if it is still in the document
closeTimerFires ==
  /\ page.closeTimers # <<>>
  /\ LET id       == Head(page.closeTimers)
         attached == \E k \in 1..Len(page.overlays) : page.overlays[k].id = id
         fired    == [page EXCEPT !.closeTimers = Tail(@)]
     IN  page' = IF attached
                 THEN observe([fired EXCEPT !.overlays = SelectSeq(@, LAMBDA m : m.id # id)])
                 ELSE fired
  /\ UNCHANGED <<now, ticks, store, calls, probe>>

PageNext ==
  \/ DOMContentLoaded
  \/ \E kind \in PageMutations : externalMutation(kind)
  \/ debounceFires
  \/ openComparisonModal
  \/ closeClick
  \/ escapeKey
  \/ closeTimerFires

PageSpec == PageInit /\ [][PageNext]_vars

(***************************************************************************)
(* Properties                                                              *)
(***************************************************************************)
\* the call has issued the operation op
Issued(c, op) == \E k \in 1..Len(c.log) : c.log[k] = op

\* the callback of the cache read has run
CacheChecked(c) == c.pc \notin {"idle", "awaitCache"}

\* the callback of the settings read has run
ConfigRead(c) == Issued(c, "configRead") /\ c.pc # "awaitConfig"

\* the modal body shows the fallback list of the call's product, not flagged as cached
ShowsFallback(c) ==
  c.body = display(FallbackResults[c.prod], ProductInfo[c.prod], FALSE)

\* the call ended on the live path: the body was parsed and nothing was thrown
LiveSuccess(c) == c.pc = "done" /\ c.net = "body" /\ c.cause = "none"

C2_UnconfiguredFallsBack ==
  \A i \in Invocations :
    LET c == calls[i]
    IN  (/\ ConfigRead(c)
         /\ \/ ~c.config.enabled
            \/ c.config.apiKey = <<>>
            \/ c.config.searchEngineId = <<>>)
          => /\ ~Issued(c, "fetch")
             /\ c.net = "none"
             /\ c.pc \in {"delay", "done"}
             /\ c.pc = "done" => ShowsFallback(c)

\* a call with an engine id missing has presented the fallback list
C2_MissingEngineIdFellBack ==
  \E i \in Invocations :
    /\ ConfigRead(calls[i])
    /\ calls[i].config.enabled
    /\ calls[i].config.apiKey # <<>>
    /\ calls[i].config.searchEngineId = <<>>
    /\ calls[i].pc = "done"
    /\ ShowsFallback(calls[i])

\* C3: a successful response without items, with no item, or with rejected items only
\* ends in the fallback list
C3_EmptyResponseFallsBack ==
  \A i \in Invocations :
    LET c == calls[i]
    IN  (LiveSuccess(c) /\ c.data \in {"noItems", "empty", "rejected"}) => ShowsFallback(c)

\* C4: after a timeout, a non-2xx status or a body that is not JSON the call presents the
\* fallback list and schedules the notice; the error state needs a throwing fallback
C4_FailuresFallBack ==
  \A i \in Invocations :
    LET c == calls[i]
    IN  /\ c.cause \in {"timeout", "http", "json"}
          => /\ c.pc = "done"
             /\ ShowsFallback(c)
             /\ c.notice \in {"scheduled", "shown"}
        /\ c.body.state = "error" => fallbackThrows(ProductInfo[c.prod])

\* a timeout and a failure of the response have each ended in the fallback list, the
\* notice of the first already shown
C4_FailureShowedFallback ==
  \E i, j \in Invocations :
    /\ calls[i].cause = "timeout" /\ ShowsFallback(calls[i]) /\ calls[i].notice = "shown"
    /\ calls[j].cause \in {"http", "json"} /\ ShowsFallback(calls[j])

\* C5: every compare that has started eventually leaves the loading state
C5_EveryCompareLeavesLoading ==
  \A i \in Invocations :
    (calls[i].pc # "idle") ~> (calls[i].body.state \in {"results", "error"})

\* the headers arrived, the 10 s timer has fired, and the modal still shows the spinner
C5_StalledAfterHeaders ==
  \E i \in Invocations :
    /\ calls[i].pc = "awaitJson"
    /\ calls[i].timer = "fired"
    /\ calls[i].body.state = "loading"

\* C6: once a call has timed out, no later step changes its modal body, its operations
\* or what it wrote, and no step of the call changes the store
C6_LateResponseIgnored ==
  [][\A i \in Invocations :
       calls[i].cause = "timeout"
         => /\ calls'[i].body = calls[i].body
            /\ calls'[i].log = calls[i].log
            /\ calls'[i].wrote = calls[i].wrote
            /\ calls'[i] # calls[i] => store' = store]_vars

\* the response headers arrived after the timeout and the fallback list is still shown
C6_ResponseAfterTimeout ==
  \E i \in Invocations :
    /\ calls[i].cause = "timeout"
    /\ calls[i].net = "headers"
    /\ ShowsFallback(calls[i])
    /\ ~calls[i].wrote.present

SavedEntries ==
  {calls[j].wrote : j \in {k \in Invocations : calls[k].wrote.present}}
    \cup {saveCachedResults(LiveResults[p].mixed, ProductInfo[p],
                             SessionStart - CACHE_TTL_MS, SessionStart - CACHE_TTL_MS) :
            p \in ProductIds}

\* C8: what a cache read returns was saved; read at a clock of at most expiresAt it
\* resolves with exactly the saved results, read later it resolves with null
C8_CacheRoundTrip ==
  \A i \in Invocations :
    LET c == calls[i]
    IN  (CacheChecked(c) /\ c.got.present)
          => /\ \E e \in SavedEntries : c.got = storageSerialize(e)
             /\ \A e \in SavedEntries :
                  c.got = storageSerialize(e)
                    => IF c.readAt <= e.expiresAt
                       THEN c.cached.hit /\ c.cached.results = e.results
                       ELSE c.cached = [hit |-> FALSE]

\* one call read an expired entry and wrote a new one, which another call read back
C8_ExpiredThenReadBack ==
  \E i, j \in Invocations :
    /\ i # j
    /\ CacheChecked(calls[i]) /\ calls[i].got.present /\ ~calls[i].cached.hit
    /\ calls[i].readAt > calls[i].got.expiresAt
    /\ calls[i].wrote.present
    /\ CacheChecked(calls[j]) /\ calls[j].got = storageSerialize(calls[i].wrote)
    /\ calls[j].cached.hit /\ calls[j].cached.results = calls[i].wrote.results

\* the entries of a list that are not the current page
OtherEntries(results) == {k \in 1..Len(results) : ~results[k].isCurrentPage}

\* C9: in every list presented, the entries that are not the current page have pairwise
\* different retailers (case-insensitive), none of them the retailer of the current page
C9_NoDuplicateRetailers ==
  \A i \in Invocations :
    LET c == calls[i]
    IN  c.body.state = "results"
          => /\ \A k, m \in OtherEntries(c.body.results) :
                  k # m => toLowerCase(c.body.results[k].retailer)
                             # toLowerCase(c.body.results[m].retailer)
             /\ \A k \in OtherEntries(c.body.results) :
                  toLowerCase(c.body.results[k].retailer)
                    # toLowerCase(ProductInfo[c.prod].retailer)

\* a result without the similarity the display adds
withoutSimilarity(e) == [f \in DOMAIN e \ {"similarity"} |-> e[f]]

\* the entries of results that the list group holds, in the order of results
InGroup(results, group) ==
  SelectSeq(results, LAMBDA r : \E k \in 1..Len(group) : withoutSimilarity(group[k]) = r)

\* C10: every list presented has exactly one current-page entry; it is shown first, as
\* the first of the same group, whose entries keep the order of the list; the similar
\* group is shown after the same group and holds the other entries by non-increasing
\* similarity
C10_DefaultPresentationOrder ==
  \A i \in Invocations :
    LET b == calls[i].body
    IN  b.state = "results"
          => /\ Cardinality({k \in 1..Len(b.results) : b.results[k].isCurrentPage}) = 1
             /\ Len(b.sameProducts) >= 1
             /\ b.sameProducts[1].isCurrentPage
             /\ b.rows[1].isCurrentPage
             /\ b.rows = b.sameProducts \o b.similarProducts
             /\ [k \in 1..Len(b.sameProducts) |-> withoutSimilarity(b.sameProducts[k])]
                  = InGroup(b.results, b.sameProducts)
             /\ Len(b.sameProducts) + Len(b.similarProducts) = Len(b.results)
             /\ \A k \in 1..Len(b.similarProducts) :
                  /\ ~b.similarProducts[k].isCurrentPage
                  /\ \E m \in 1..Len(b.results) :
                       b.results[m] = withoutSimilarity(b.similarProducts[k])
             /\ \A k, m \in 1..Len(b.similarProducts) :
                  k < m => ScoreGE(b.similarProducts[k].similarity,
                                   b.similarProducts[m].similarity)

\* a list is presented whose similar entries arrived in another order than shown
C10_SimilarGroupReordered ==
  \E i \in Invocations :
    LET b == calls[i].body
    IN  /\ b.state = "results"
        /\ Len(b.sameProducts) >= 3
        /\ Len(b.similarProducts) >= 2
        /\ [k \in 1..Len(b.similarProducts) |-> withoutSimilarity(b.similarProducts[k])]
             # InGroup(b.results, b.similarProducts)

(***************************************************************************)
(* Properties of the functions called on their own                         *)
(***************************************************************************)
\* the call of op has returned
Returned(op) == probe.op = op /\ probe.done

\* the entries parseShoppingResults added after the entry of the current page
Survivors == Tail(probe.value)

\* C11: among the entries parseShoppingResults adds for a batch no two have the same
\* retailer name up to case, and none has the retailer of the current product up to case
C11_OnePerRetailerNoneCurrent ==
  Returned("parseShoppingResults") =>
    /\ \A j, k \in 1..Len(Survivors) :
         j # k => toLowerCase(Survivors[j].retailer) # toLowerCase(Survivors[k].retailer)
    /\ \A k \in 1..Len(Survivors) :
         /\ toLowerCase(Survivors[k].retailer) # toLowerCase(probe.args[2].retailer)
         /\ Survivors[k].retailer = extractRetailerName(Survivors[k].url)

\* a batch of two items that pass every stage and are of one retailer, which is not the
\* current one, has returned: one of the two was added
C11_DuplicateRetailerDropped ==
  /\ Returned("parseShoppingResults")
  /\ Len(probe.args[1].items) = 2
  /\ \A k \in 1..2 : ~rejectedBeforeIdentity(probe.args[1].items[k])
  /\ probe.args[1].items[1].link # probe.args[1].items[2].link
  /\ toLowerCase(extractRetailerName(linkOf(probe.args[1].items[1])))
       = toLowerCase(extractRetailerName(linkOf(probe.args[1].items[2])))
  /\ Len(Survivors) = 1

\* the host name of the URL of an added entry, as new URL(url).hostname gives it
HostOf(entry) == parseURL(entry.url).hostname

\* C12: no entry parseShoppingResults adds has a host under .org, .edu or .gov, unless
\* its URL contains "search"
C12_NoOrgEduGovHost ==
  Returned("parseShoppingResults") =>
    \A k \in 1..Len(Survivors) :
      (\/ endsWith(HostOf(Survivors[k]), <<".","o","r","g">>)
       \/ endsWith(HostOf(Survivors[k]), <<".","e","d","u">>)
       \/ endsWith(HostOf(Survivors[k]), <<".","g","o","v">>))
        => includes(toLowerCase(Survivors[k].url), <<"s","e","a","r","c","h">>)

\* C13: no entry parseShoppingResults adds has a host that ends in a country-code suffix
\* of the code's lists
C13_NoNonUSHost ==
  Returned("parseShoppingResults") =>
    \A k \in 1..Len(Survivors) :
      /\ \A d \in Range(nonUSDomains) : ~endsWith(HostOf(Survivors[k]), d)
      /\ \A t \in nonUSTLDs : ~endsWith(HostOf(Survivors[k]), <<".">> \o t)

\* the URL the stages of the filter test, and the host they take from it
StageUrl(item) == toLowerCase(linkOf(item))
StageHost(item) == hostnameOfUrl(StageUrl(item))

\* a batch of the one item it has returned, the item having passed the commerce, locale and
\* non-retailer stages (app-store links counted with the non-retailer sites) and being of
\* another retailer than the current product
PageTypeDecides(it) ==
  /\ Returned("parseShoppingResults")
  /\ probe.args[1].items = <<it>>
  /\ ~isNonCommerce(StageUrl(it))
  /\ ~isNonUSDomain(StageUrl(it))
  /\ ~isNonUSHostname(StageHost(it))
  /\ ~isNonRetailer(StageHost(it), StageUrl(it))
  /\ ~isAppStoreLink(StageUrl(it))
  /\ toLowerCase(extractRetailerName(linkOf(it))) # toLowerCase(probe.args[2].retailer)

NoPath(url) == pathOfUrl(url) = <<>> \/ pathOfUrl(url) = <<"/">>

Unparseable(v) ==
  /\ v.type = "string"
  /\ startsWith(v.str, <<"h","t","t","p",":","/","/">>) \/ startsWith(v.str, <<"h","t","t","p","s",":","/","/">>)
  /\ ~parseURL(v.str).ok

\* C15: extractRetailerName throws for no value, and returns "Other Retailer" for every
\* string whose URL cannot be parsed
C15_NeverThrowsSentinelOnFailure ==
  Returned("extractRetailerName") =>
    /\ ~probe.value.threw
    /\ Unparseable(probe.args[1]) => probe.value.result = OtherRetailer

\* two scores are the same number
ScoreEq(a, b) == a.num * b.den = b.num * a.den

\* C16: without a brand hint the score of two titles is the score of the two titles
\* swapped, so that both orders fall on the same side of the threshold
C16_SimilaritySymmetric ==
  (Returned("calculateTitleSimilarity") /\ probe.args[3].brand = <<>>) =>
    /\ ScoreEq(probe.value,
               calculateTitleSimilarity(probe.args[2], probe.args[1], probe.args[3]))
    /\ isSameProduct(probe.value)
         <=> isSameProduct(calculateTitleSimilarity(probe.args[2], probe.args[1], probe.args[3]))

\* C17: the score of "JBL Flip 6 Portable Speaker (Black)" and "JBL FLIP6 BT Speaker - Black"
\* without a brand hint is at least 0.9, both titles yielding a model code
C17_Flip6ModelMatch ==
  (/\ Returned("calculateTitleSimilarity")
   /\ probe.args = <<<<"J","B","L"," ","F","l","i","p"," ","6"," ","P","o","r","t","a","b","l","e"," ","S","p","e","a","k","e","r"," ","(","B","l","a","c","k",")">>, <<"J","B","L"," ","F","L","I","P","6"," ","B","T"," ","S","p","e","a","k","e","r"," ","-"," ","B","l","a","c","k">>,
                     [brand |-> <<>>]>>)
    => /\ ScoreGE(probe.value, Score(9, 10))
       /\ extractModelNumbers(probe.args[1]) # {}
       /\ extractModelNumbers(probe.args[2]) # {}

\* the entry e of the list handed to displayComparisonResults is in the group
Grouped(e, group) == \E m \in 1..Len(group) : withoutSimilarity(group[m]) = e

\* the score displayComparisonResults computes for the entry e
ScoreOf(e) == calculateTitleSimilarity(probe.args[2].title, e.title, probe.args[2])

\* C18: every entry that is not the current page is in exactly one group, the same group
\* if and only if its score is above 0.65; the entry of the current page is in the same group
C18_GroupsByThreshold ==
  Returned("displayComparisonResults") =>
    /\ Len(probe.value.sameProducts) + Len(probe.value.similarProducts) = Len(probe.args[1])
    /\ \A k \in 1..Len(probe.args[1]) :
         LET e == probe.args[1][k]
         IN  IF e.isCurrentPage
             THEN Grouped(e, probe.value.sameProducts) /\ ~Grouped(e, probe.value.similarProducts)
             ELSE /\ Grouped(e, probe.value.sameProducts) <=> ScoreGT(ScoreOf(e), Score(65, 100))
                  /\ Grouped(e, probe.value.similarProducts) <=> ~ScoreGT(ScoreOf(e), Score(65, 100))

\* a list was grouped that holds an entry of score 0.65 exactly, shown as similar, and an
\* entry of a higher score, shown as the same product
C18_ThresholdEntrySimilar ==
  /\ Returned("displayComparisonResults")
  /\ \E k \in 1..Len(probe.value.similarProducts) :
       ScoreEq(probe.value.similarProducts[k].similarity, Score(65, 100))
  /\ \E k \in 1..Len(probe.value.sameProducts) : ~probe.value.sameProducts[k].isCurrentPage

\* the text holds the sign of another currency, or a dollar sign that follows a letter
OtherCurrency(s) ==
  \E q \in 1..Len(s) :
    \/ s[q] \in {"pound", "euro", "yen", "peso"}
    \/ s[q] = "$" /\ q > 1 /\ s[q - 1] \in (Upper \cup Lower)

\* C19: parsePriceTextUSDOnly returns a number only for a text with a dollar amount, and
\* null for every text with another currency marker; null for the pound amount 45.00 and
\* 45.00 for "$45.00"
C19_StrictUsdOnly ==
  Returned("parsePriceTextUSDOnly") =>
    /\ ~probe.value.isNull =>
         probe.args[1].type = "string" /\ \E q \in 1..Len(probe.args[1].str) : probe.args[1].str[q] = "$"
    /\ OtherCurrency(probe.args[1].str) => probe.value.isNull
    /\ probe.args[1] = Str(<<"pound","4","5",".","0","0">>) => probe.value.isNull
    /\ probe.args[1] = Str(<<"$","4","5",".","0","0">>) => ~probe.value.isNull /\ ScoreEq(probe.value, Score(45, 1))

\* C20: parsePriceText and parsePriceTextUSDOnly return null for a text without a number,
\* and a number they return is above 0
C20_NullOrPositive ==
  (Returned("parsePriceText") \/ Returned("parsePriceTextUSDOnly")) =>
    /\ (\A q \in 1..Len(probe.args[1].str) : probe.args[1].str[q] \notin Digit) => probe.value.isNull
    /\ ~probe.value.isNull => probe.value.num > 0 /\ probe.value.den > 0

(***************************************************************************)
(* Properties of a whole compare                                           *)
(***************************************************************************)
\* the call ran the live path from a cache miss for the product p and parsed the body d
LiveFromMiss(c, p, d) ==
  LiveSuccess(c) /\ c.prod = p /\ c.data = d /\ ~c.got.present

\* C21: a compare for the Amazon page of the Anker PowerCore 10000 that finds no cache
\* entry, reads a complete enabled configuration and receives the one target.com item
\* with the same title shows a same group of two entries, the Amazon current page and
\* then Target, and an empty similar group
C21_EndToEndSameGroupOfTwo ==
  \A i \in Invocations :
    LET c == calls[i]
        b == c.body
    IN  LiveFromMiss(c, "amazon", "single")
          => /\ ~apiUnavailable(c.config)
             /\ b.state = "results"
             /\ Len(b.sameProducts) = 2
             /\ b.sameProducts[1].isCurrentPage
             /\ b.sameProducts[1].retailer = <<"A","m","a","z","o","n">>
             /\ b.sameProducts[1].url = ProductInfo.amazon.url
             /\ ~b.sameProducts[2].isCurrentPage
             /\ b.sameProducts[2].retailer = <<"T","a","r","g","e","t">>
             /\ b.sameProducts[2].url = ApiResponses.single.items[1].link
             /\ b.similarProducts = <<>>
             /\ b.rows = b.sameProducts

\* the compare of the scenario has ended, on an empty store
C21_ScenarioRan ==
  \E i \in Invocations :
    /\ LiveFromMiss(calls[i], "amazon", "single")
    /\ Issued(calls[i], "fetch")
    /\ \A j \in Invocations : j # i => calls[j].pc = "idle"

\* how many search requests the call has sent
Requests(c) == Cardinality({k \in 1..Len(c.log) : c.log[k] = "fetch"})

\* C22: an invocation sends at most one search request, and the only step that sends
\* one is the step after the settings read of an invocation that has sent none: no step
\* of an invocation that timed out, got a non-2xx status, a body that is not JSON or an
\* empty result sends another
C22_OneRequestPerCompare ==
  [][\A i \in Invocations :
       /\ Requests(calls'[i]) <= 1
       /\ Requests(calls'[i]) # Requests(calls[i])
            => /\ calls[i].pc = "awaitConfig"
               /\ Requests(calls[i]) = 0
               /\ calls[i].cause = "none"]_vars

\* a compare timed out after its one request, and a second compare has sent its own
C22_SecondCompareAfterTimeout ==
  \E i, j \in Invocations :
    /\ i # j
    /\ calls[i].pc = "done" /\ calls[i].cause = "timeout" /\ Requests(calls[i]) = 1
    /\ calls[j].pc = "awaitFetch" /\ Requests(calls[j]) = 1

\* the step ends the call i on the live path
EndsLive(i) == calls[i].pc = "awaitJson" /\ LiveSuccess(calls'[i])

RetailerKey(item) == toLowerCase(extractRetailerName(linkOf(item)))

\* the positions of the batch whose item passes the stages before the retailer is looked at
Passing(items) == {k \in 1..Len(items) : ~rejectedBeforeIdentity(items[k])}

\* the passing positions that are the first of their retailer, other than the current one
FirstSeen(items, currentProduct) ==
  {k \in Passing(items) :
     /\ RetailerKey(items[k]) # toLowerCase(currentProduct.retailer)
     /\ \A m \in Passing(items) : m < k => RetailerKey(items[m]) # RetailerKey(items[k])}

Ungrouped(s) == SelectSeq(s, LAMBDA c : c # ",")

\* two results of a price parser are the same: both null or the same number
SamePrice(a, b) == a.isNull = b.isNull /\ (~a.isNull => ScoreEq(a, b))

C26_CacheKeyInjective ==
  Returned("getCacheKey") =>
    \A q \in ProbeKeyProducts :
      (q.retailer # probe.args[1].retailer \/ q.url # probe.args[1].url)
        => getCacheKey(q) # probe.value

\* C27: an entry of the store stays in the store as long as the clock has not passed its
\* expiresAt: no step of any invocation removes it before, whatever the invocation read
\* earlier
C27_FreshEntryKept ==
  [][\A k \in CacheKeys :
       (store[k].present /\ now' <= store[k].expiresAt) => store'[k].present]_vars

\* the second-level domain of a host name: its last two labels
SecondLevelDomain(hostname) ==
  LET labels == splitOn(hostname, ".")
  IN  IF Len(labels) < 2 THEN hostname
      ELSE labels[Len(labels) - 1] \o <<".">> \o labels[Len(labels)]

\* the second-level domain of an http(s) URL
DomainOf(url) == SecondLevelDomain(parseURL(url).hostname)

\* C28: an item with a link that passes the stages before the retailer is identified is
\* in the output unless an earlier such item of the batch, or the current page, is on
\* the same second-level domain
C28_DroppedOnlyForSameDomain ==
  Returned("parseShoppingResults") =>
    LET items == probe.args[1].items
    IN  \A k \in Passing(items) :
          (/\ items[k].link # <<>>
           /\ DomainOf(items[k].link) # DomainOf(probe.args[2].url)
           /\ \A m \in Passing(items) :
                m < k => items[m].link # <<>> /\ DomainOf(items[m].link) # DomainOf(items[k].link))
            => \E n \in 1..Len(Survivors) : Survivors[n].url = items[k].link

(***************************************************************************)
(* Properties of the document                                              *)
(***************************************************************************)
\* C29: whenever no close timer is pending at most one overlay is in the document, and
\* a close request made while an overlay is in the document puts the closing class on
\* the overlay that was opened last
C29_OneOverlayNewestClosed ==
  [][/\ page'.closeTimers = <<>> => Len(page'.overlays) <= 1
     /\ ((closeClick \/ escapeKey) /\ page.overlays # <<>>)
          => page'.overlays[Len(page'.overlays)].closing]_vars

\* C30 as stated: the document never holds two compare buttons, and once the page has
\* made its last change a debounced check changes nothing
C30_NextCheckChangesNothing ==
  [][/\ page'.buttons <= 1
     /\ (debounceFires /\ page.mutations = MaxMutations) => page'.buttons = page.buttons]_vars

\* C30: the document never holds two compare buttons; a debounced check that follows
\* changes of the page may insert the button, and a debounced check that follows only
\* the script's own insertions and removals changes nothing and leaves no check pending
C30_OwnMutationsEndTheChain ==
  [][/\ page'.buttons <= 1
     /\ debounceFires => ~page'.pageChanged
     /\ (debounceFires /\ ~page.pageChanged)
          => /\ page'.buttons = page.buttons
             /\ page'.overlays = page.overlays
             /\ page'.checkTimer = "none"]_vars

\* the check that the insertion of the button caused has run and found the button
C30_CheckAfterOwnInsertion ==
  /\ page.buttons = 1
  /\ page.opened = 0
  /\ page.lastCheck = "nothingOwn"
  /\ page.checkTimer = "none"

=============================================================================
